---- MODULE Spec2Model ----
(***************************************************************************)
(* A model of uvm, a user-mode emulator of a 32-bit ARM CPU:               *)
(*   src/src/arm/mem.rs   the paged, permission-checked Memory             *)
(*   src/src/arm/cpu.rs   the Cpu and its fetch-decode-execute step1       *)
(*   src/src/elf32.rs     the ELF32 loader and the run loop                *)
(*                                                                         *)
(* A u32 is the pair <<hi, lo>> of its two 16-bit halves (TLC's integers   *)
(* are 32-bit signed and cannot hold 2^32 - 1).  Arithmetic on u32 wraps   *)
(* modulo 2^32, as the code's plain + and - do in a build without          *)
(* overflow checks and as its wrapping_* calls do in every build.          *)
(***************************************************************************)
EXTENDS Integers, Sequences, FiniteSets, TLC

(***************************************************************************)
(* u32                                                                     *)
(***************************************************************************)
M16 == 65536

U32(hi, lo) == <<hi, lo>>
Hi(x) == x[1]
Lo(x) == x[2]
ZERO32 == U32(0, 0)

\* n as u32, for 0 <= n < 2^31
FromNat(n) == U32(n \div M16, n % M16)

\* x as a natural number, for x < 2^31
ToNat(x) == Hi(x) * M16 + Lo(x)

Min(a, b) == IF a <= b THEN a ELSE b

\* F at the value of x: F(x), with x evaluated once however often F uses it
Let(x, F(_)) == CHOOSE r \in {F(v) : v \in {x}} : TRUE

RECURSIVE Pow2(_)
Pow2(k) == IF k = 0 THEN 1 ELSE 2 * Pow2(k - 1)

\* u32::wrapping_add
wrapping_add(x, y) ==
    LET lo == Lo(x) + Lo(y)
        hi == Hi(x) + Hi(y) + (lo \div M16)
    IN  U32(hi % M16, lo % M16)

\* !x on u32
Not32(x) == U32(M16 - 1 - Hi(x), M16 - 1 - Lo(x))

\* u32::wrapping_sub:  x - y = x + !y + 1  (mod 2^32)
wrapping_sub(x, y) == wrapping_add(wrapping_add(x, Not32(y)), U32(0, 1))

\* bitwise operators on 16-bit halves, by the truth table of one bit
RECURSIVE Bits16(_, _, _, _)
Bits16(a, b, tt, n) ==
    IF n = 0 THEN 0
    ELSE tt[a % 2][b % 2] + 2 * Bits16(a \div 2, b \div 2, tt, n - 1)

AndTT == [p \in 0..1 |-> [q \in 0..1 |-> IF p = 1 /\ q = 1 THEN 1 ELSE 0]]
OrTT  == [p \in 0..1 |-> [q \in 0..1 |-> IF p = 1 \/ q = 1 THEN 1 ELSE 0]]
XorTT == [p \in 0..1 |-> [q \in 0..1 |-> IF p # q THEN 1 ELSE 0]]

Bits32(x, y, tt) ==
    Let(<<x, y>>, LAMBDA p : U32(Bits16(Hi(p[1]), Hi(p[2]), tt, 16),
                                 Bits16(Lo(p[1]), Lo(p[2]), tt, 16)))
And32(x, y) == Bits32(x, y, AndTT)
Or32(x, y)  == Bits32(x, y, OrTT)
Xor32(x, y) == Bits32(x, y, XorTT)

\* x >> n (logical), 0 <= n <= 31
Shr32(x, n) ==
    IF n >= 16 THEN U32(0, Hi(x) \div Pow2(n - 16))
    ELSE U32(Hi(x) \div Pow2(n),
             (Lo(x) \div Pow2(n)) + (Hi(x) % Pow2(n)) * Pow2(16 - n))

\* x << n, 0 <= n <= 31
Shl32(x, n) ==
    IF n >= 16 THEN U32((Lo(x) % Pow2(32 - n)) * Pow2(n - 16), 0)
    ELSE U32((Hi(x) % Pow2(16 - n)) * Pow2(n) + (Lo(x) \div Pow2(16 - n)),
             (Lo(x) % Pow2(16 - n)) * Pow2(n))

\* u32::wrapping_shl / wrapping_shr: the amount is taken modulo 32
wrapping_shl(x, n) == Shl32(x, n % 32)
wrapping_shr(x, n) == Shr32(x, n % 32)

\* (x as i32).wrapping_shr(n) as u32: the sign bit fills the vacated bits
wrapping_shr_i32(x, n) ==
    LET k == n % 32
        s == Shr32(x, k)
    IN  IF Hi(x) >= 32768 /\ k > 0
        THEN Or32(s, Shl32(U32(M16 - 1, M16 - 1), 32 - k))
        ELSE s

\* u32::rotate_right: the amount is taken modulo 32
rotate_right(x, n) ==
    LET k == n % 32
    IN  IF k = 0 THEN x ELSE Or32(Shr32(x, k), Shl32(x, 32 - k))

\* x < y on u32
Lt32(x, y) == Hi(x) < Hi(y) \/ (Hi(x) = Hi(y) /\ Lo(x) < Lo(y))

\* u32::from_le of four bytes b[1] (lowest address) .. b[4]
u32_from_le(b) == U32(b[3] + 256 * b[4], b[1] + 256 * b[2])

(***************************************************************************)
(* Memory (src/src/arm/mem.rs)                                             *)
(*                                                                         *)
(* Memory.pages holds 2^22 pages, nearly all of them equal to Page::new(). *)
(* A Memory value is the function from the indices of the pages that       *)
(* differ from Page::new() to those pages; a page's data is Some/None plus *)
(* the function from the offsets of its non-zero bytes to those bytes.     *)
(***************************************************************************)
NONE == 0
READ == 1
WRITE == 2
EXECUTE == 4

PAGE_SHIFT == 10
PAGE_SIZE == 1024
NUM_PAGES == 4194304
PAGE_DATA_BYTES == 4096

\* MemoryFlags::intersects in the place of contains
contains_intersects(have, want) == Bits16(have, want, AndTT, 3) # 0

\* MemoryFlags::contains and the | of two flag sets (three flag bits)
contains(have, want) == Bits16(have, want, AndTT, 3) = want
flags_union(a, b) == Bits16(a, b, OrTT, 3)

\* Page::default
Page_new == [data |-> [some |-> FALSE, at |-> <<>>], flags |-> NONE]

\* Memory::default
Memory_new == <<>>

\* self.pages[page_idx], for page_idx < NUM_PAGES
page_at(mem, page_idx) ==
    IF page_idx \in DOMAIN mem THEN mem[page_idx] ELSE Page_new

\* self.pages[page_idx] = page
set_page(mem, page_idx, page) ==
    IF page = Page_new
    THEN [i \in DOMAIN mem \ {page_idx} |-> mem[i]]
    ELSE [i \in DOMAIN mem \cup {page_idx} |-> IF i = page_idx THEN page ELSE mem[i]]

\* Page::bytes()[off]: the backing storage, or the shared ZEROS array
bytes(page, off) ==
    IF page.data.some /\ off \in DOMAIN page.data.at THEN page.data.at[off] ELSE 0

\* Page::alloc_bytes_mut: get_or_insert_with a zeroed array
alloc_bytes_mut(page) == [page EXCEPT !.data.some = TRUE]

\* data[start .. start + Len(bs)] = bs on an allocated page
copy_into(page, start, bs) ==
    Let(<<page, bs, {o \in start .. (start + Len(bs) - 1) : bs[o - start + 1] # 0}>>,
        LAMBDA a :
            [a[1] EXCEPT !.data.at =
                [o \in (DOMAIN a[1].data.at \ (start .. (start + Len(a[2]) - 1))) \cup a[3] |->
                    IF o \in a[3] THEN a[2][o - start + 1] ELSE a[1].data.at[o]]])

\* ReadAtMut::read_exact_at(buf, offset) on a byte source of src.len bytes:
\* it fails (unexpected end of file) unless the whole buffer can be filled
read_exact_at(src, n, offset) ==
    IF offset + n <= src.len
    THEN [ok |-> TRUE,  bytes |-> [i \in 1..n |-> src.at[offset + i - 1]]]
    ELSE [ok |-> FALSE, bytes |-> <<>>]

\* init_page with page.flags = flags in the place of page.flags |= flags
init_page_assign(mem, page_idx, flags) ==
    IF page_idx >= NUM_PAGES
    THEN [ok |-> FALSE, mem |-> mem]
    ELSE [ok |-> TRUE,
          mem |-> set_page(mem, page_idx, [page_at(mem, page_idx) EXCEPT !.flags = flags])]

\* Memory::init_page
init_page(mem, page_idx, flags) ==
    IF page_idx >= NUM_PAGES
    THEN [ok |-> FALSE, mem |-> mem]
    ELSE [ok |-> TRUE,
          mem |-> set_page(mem, page_idx,
                    [page_at(mem, page_idx) EXCEPT !.flags = flags_union(@, flags)])]

\* on_page without offset += range.len(): every page is filled from the same
\* place of the source
on_page_keep_offset(page, start, end, io) ==
    IF ~io.copy THEN [ok |-> TRUE, page |-> page, io |-> io]
    ELSE Let(read_exact_at(io.src, end - start, io.offset), LAMBDA r :
             [ok |-> r.ok,
              page |-> IF r.ok THEN copy_into(alloc_bytes_mut(page), start, r.bytes)
                       ELSE alloc_bytes_mut(page),
              io |-> io])

\* The on_page closures of init_zero (io.copy = FALSE: nothing) and of
\* init_copy_io (io.copy = TRUE: allocate, read_exact_at into the range,
\* advance the offset).  After a failed read the buffer's contents are
\* unspecified: io.partial says whether the bytes before the end of the
\* source were stored.
on_page(page, start, end, io) ==
    IF ~io.copy THEN [ok |-> TRUE, page |-> page, io |-> io]
    ELSE LET data == alloc_bytes_mut(page)
             have == IF io.offset < io.src.len
                     THEN Min(end - start, io.src.len - io.offset) ELSE 0
         IN  Let(read_exact_at(io.src, end - start, io.offset), LAMBDA r :
                 IF r.ok
                 THEN [ok |-> TRUE, page |-> copy_into(data, start, r.bytes),
                       io |-> [io EXCEPT !.offset = @ + (end - start)]]
                 ELSE [ok |-> FALSE,
                       page |-> IF io.partial
                                THEN copy_into(data, start,
                                        [i \in 1..have |-> io.src.at[io.offset + i - 1]])
                                ELSE data,
                       io |-> io])

\* init_one giving back the Memory it was called with when on_page fails
init_one_rollback(mem, page_idx, flags, start, end, io) ==
    Let(init_page(mem, page_idx, flags), LAMBDA p :
        IF ~p.ok THEN [ok |-> FALSE, err |-> "OutOfMemory", mem |-> mem, io |-> io]
        ELSE Let(on_page(page_at(p.mem, page_idx), start, end, io), LAMBDA r :
                [ok |-> r.ok, err |-> IF r.ok THEN "" ELSE "Io",
                 mem |-> IF r.ok THEN set_page(p.mem, page_idx, r.page) ELSE mem,
                 io |-> r.io]))

\* One page of Memory::init_pages: init_page(page_idx)?, on_page(range)?
init_one(mem, page_idx, flags, start, end, io) ==
    Let(init_page(mem, page_idx, flags), LAMBDA p :
        IF ~p.ok THEN [ok |-> FALSE, err |-> "OutOfMemory", mem |-> mem, io |-> io]
        ELSE Let(on_page(page_at(p.mem, page_idx), start, end, io), LAMBDA r :
                [ok |-> r.ok, err |-> IF r.ok THEN "" ELSE "Io",
                 mem |-> set_page(p.mem, page_idx, r.page), io |-> r.io]))

\* The while loop of Memory::init_pages.  seen is not a result of the code:
\* it records the pages on which init_page has run.
RECURSIVE init_pages_loop(_, _, _, _, _, _)
init_pages_loop(mem, page_idx, flags, nbytes, io, seen) ==
    IF nbytes = 0 THEN [ok |-> TRUE, err |-> "", mem |-> mem, seen |-> seen]
    ELSE Let(init_one(mem, page_idx, flags, 0, Min(nbytes, PAGE_SIZE), io), LAMBDA r :
             IF ~r.ok
             THEN [ok |-> FALSE, err |-> r.err, mem |-> r.mem,
                   seen |-> IF r.err = "Io" THEN seen \cup {page_idx} ELSE seen]
             ELSE init_pages_loop(r.mem, page_idx + 1, flags,
                                  nbytes - Min(nbytes, PAGE_SIZE), r.io,
                                  seen \cup {page_idx}))

\* Memory::init_pages
init_pages(mem, base, flags, nbytes, io) ==
    LET page_idx == ToNat(Shr32(base, PAGE_SHIFT))
        offset   == ToNat(And32(base, U32(0, PAGE_SIZE - 1)))
        size     == Min(PAGE_SIZE - offset, nbytes)
    IN  IF nbytes = 0 THEN [ok |-> TRUE, err |-> "", mem |-> mem, seen |-> {}]
        ELSE Let(init_one(mem, page_idx, flags, offset, offset + size, io), LAMBDA r :
                 IF ~r.ok
                 THEN [ok |-> FALSE, err |-> r.err, mem |-> r.mem,
                       seen |-> IF r.err = "Io" THEN {page_idx} ELSE {}]
                 ELSE init_pages_loop(r.mem, page_idx + 1, flags, nbytes - size, r.io,
                                      {page_idx}))

\* Memory::init_zero
init_zero(mem, base, flags, zero_bytes) ==
    init_pages(mem, base, flags, zero_bytes, [copy |-> FALSE])

\* Memory::init_copy_io
init_copy_io(mem, base, flags, src, offset, io_bytes, partial) ==
    init_pages(mem, base, flags, io_bytes,
               [copy |-> TRUE, src |-> src, offset |-> offset, partial |-> partial])

\* read_aligned taking the page index from addr >> 12 (the 4096 bytes of a
\* page's array) in the place of addr >> 10
read_aligned_shift12(mem, addr, flags, n) ==
    LET page   == page_at(mem, ToNat(Shr32(addr, 12)))
        offset == ToNat(And32(addr, U32(0, PAGE_SIZE - 1)))
    IN  IF ~contains(page.flags, flags)
        THEN [ok |-> FALSE, panic |-> "not mapped for read", bytes |-> <<>>]
        ELSE [ok |-> TRUE, panic |-> "",
              bytes |-> [i \in 1..n |-> bytes(page, offset + i - 1)]]

\* Memory::read_aligned: one page is locked and checked, and the bytes come
\* from its 4096-byte array
read_aligned(mem, addr, flags, n) ==
    LET page_idx == ToNat(Shr32(addr, PAGE_SHIFT))
        offset   == ToNat(And32(addr, U32(0, PAGE_SIZE - 1)))
        page     == page_at(mem, page_idx)
    IN  IF ~contains(page.flags, flags)
        THEN [ok |-> FALSE, panic |-> "not mapped for read", bytes |-> <<>>]
        ELSE IF offset + n > PAGE_DATA_BYTES
        THEN [ok |-> FALSE, panic |-> "slice index", bytes |-> <<>>]
        ELSE [ok |-> TRUE, panic |-> "",
              bytes |-> [i \in 1..n |-> bytes(page, offset + i - 1)]]

\* The while loop of Memory::read_unaligned
RECURSIVE read_unaligned_loop(_, _, _, _, _)
read_unaligned_loop(mem, page_idx, offset, flags, n) ==
    IF n = 0 THEN [ok |-> TRUE, panic |-> "", bytes |-> <<>>]
    ELSE LET read == Min(PAGE_SIZE - offset, n)
             page == page_at(mem, page_idx)
         IN  IF page_idx >= NUM_PAGES
             THEN [ok |-> FALSE, panic |-> "index out of bounds", bytes |-> <<>>]
             ELSE IF ~contains(page.flags, flags)
             THEN [ok |-> FALSE, panic |-> "not mapped for read", bytes |-> <<>>]
             ELSE Let(read_unaligned_loop(mem, page_idx + 1, 0, flags, n - read),
                      LAMBDA rest :
                        IF ~rest.ok THEN rest
                        ELSE [ok |-> TRUE, panic |-> "",
                              bytes |-> [i \in 1..read |-> bytes(page, offset + i - 1)]
                                        \o rest.bytes])

\* Memory::read_unaligned
read_unaligned(mem, addr, flags, n) ==
    read_unaligned_loop(mem, ToNat(Shr32(addr, PAGE_SHIFT)),
                        ToNat(And32(addr, U32(0, PAGE_SIZE - 1))), flags, n)

\* Memory::read_bytes
read_bytes(mem, addr, flags, n) == read_unaligned(mem, addr, flags, n)

\* u16::from_le, u64::from_le (a u64 is the pair <<high u32, low u32>>)
u16_from_le(b) == b[1] + 256 * b[2]
u64_from_le(b) == <<u32_from_le(<<b[5], b[6], b[7], b[8]>>), u32_from_le(<<b[1], b[2], b[3], b[4]>>)>>

\* The typed reads: the value converted from the little-endian bytes read
typed(r, n) ==
    [ok |-> r.ok, panic |-> r.panic, bytes |-> r.bytes,
     value |-> IF ~r.ok THEN <<>>
               ELSE IF n = 1 THEN <<r.bytes[1]>>
               ELSE IF n = 2 THEN <<u16_from_le(r.bytes)>>
               ELSE IF n = 4 THEN u32_from_le(r.bytes)
               ELSE u64_from_le(r.bytes)]

read_u8(mem, addr, flags)            == typed(read_aligned(mem, addr, flags, 1), 1)
read_u16_aligned(mem, addr, flags)   == typed(read_aligned(mem, addr, flags, 2), 2)
read_u32_aligned(mem, addr, flags)   == typed(read_aligned(mem, addr, flags, 4), 4)
read_u64_aligned(mem, addr, flags)   == typed(read_aligned(mem, addr, flags, 8), 8)
read_u16_unaligned(mem, addr, flags) == typed(read_unaligned(mem, addr, flags, 2), 2)
read_u32_unaligned(mem, addr, flags) == typed(read_unaligned(mem, addr, flags, 4), 4)
read_u64_unaligned(mem, addr, flags) == typed(read_unaligned(mem, addr, flags, 8), 8)

(***************************************************************************)
(* State                                                                   *)
(***************************************************************************)
VARIABLES
    memory,     \* the Memory
    cpu,        \* the Cpu: [registers, z, c, n, v]
    proc,       \* the process: [status, exit_code, panic]
    out,        \* the write_all calls made on stdout and stderr, in order
    elf,        \* the byte source handed to run
    last,       \* the last operation performed, its arguments and its result
    nops,       \* how many initialization calls or steps were made
    touched,    \* the pages on which init_page has set flags
    readers,    \* the execution contexts inside Memory's reads: where each one is
    locks       \* the Mutex of each page: its owner and whether it is poisoned

vars == <<memory, cpu, proc, out, elf, last, nops, touched, readers, locks>>

\* Cpu::new (Default): all registers 0, all flags false
Cpu_new == [registers |-> [i \in 0..15 |-> ZERO32],
            z |-> FALSE, c |-> FALSE, n |-> FALSE, v |-> FALSE]

\* The pages a byte range [addr, addr + len) lies on (indices at or beyond
\* NUM_PAGES are outside the page table)
pages_of(addr, len) ==
    IF len = 0 THEN {}
    ELSE LET first  == ToNat(Shr32(addr, PAGE_SHIFT))
             offset == ToNat(And32(addr, U32(0, PAGE_SIZE - 1)))
         IN  first .. (first + ((offset + len - 1) \div PAGE_SIZE))

(***************************************************************************)
(* Cpu (src/src/arm/cpu.rs)                                                *)
(***************************************************************************)
\* (op >> sh) & mask, for a mask below 2^16
Field(op, sh, mask) == ToNat(And32(Shr32(op, sh), U32(0, mask)))

\* Cpu::read_pc_offset
read_pc_offset == 8

\* Cpu::set_next_instruction_addr
set_next_instruction_addr(core, addr) ==
    [core EXCEPT !.registers[15] = wrapping_add(addr, FromNat(read_pc_offset))]

\* The condition match with HI taken as c || !z in the place of c && !z
cond_holds_hi_or(core, op) ==
    LET cc == ToNat(Shr32(op, 28))
    IN  CASE cc = 0  -> core.z
          [] cc = 1  -> ~core.z
          [] cc = 2  -> core.c
          [] cc = 3  -> ~core.c
          [] cc = 4  -> core.n
          [] cc = 5  -> ~core.n
          [] cc = 6  -> core.v
          [] cc = 7  -> ~core.v
          [] cc = 8  -> core.c \/ ~core.z
          [] cc = 9  -> ~core.c \/ core.z
          [] cc = 10 -> core.n = core.v
          [] cc = 11 -> core.n # core.v
          [] cc = 12 -> ~core.z /\ (core.n = core.v)
          [] cc = 13 -> core.z \/ (core.n # core.v)
          [] cc = 14 -> TRUE
          [] OTHER   -> FALSE

\* The match on op >> 28 in Cpu::step1
cond_holds(core, op) ==
    LET cc == ToNat(Shr32(op, 28))
    IN  CASE cc = 0  -> core.z
          [] cc = 1  -> ~core.z
          [] cc = 2  -> core.c
          [] cc = 3  -> ~core.c
          [] cc = 4  -> core.n
          [] cc = 5  -> ~core.n
          [] cc = 6  -> core.v
          [] cc = 7  -> ~core.v
          [] cc = 8  -> core.c /\ ~core.z
          [] cc = 9  -> ~core.c \/ core.z
          [] cc = 10 -> core.n = core.v
          [] cc = 11 -> core.n # core.v
          [] cc = 12 -> ~core.z /\ (core.n = core.v)
          [] cc = 13 -> core.z \/ (core.n # core.v)
          [] cc = 14 -> TRUE
          [] OTHER   -> FALSE

\* operand2 with the immediate rotated by the rotate field, not by twice it
operand2_rotate_once(core, op) ==
    IF Field(op, 25, 1) = 1
    THEN LET rotate == Field(op, 8, 15)
             imm    == U32(0, Field(op, 0, 255))
         IN  rotate_right(imm, rotate)
    ELSE LET rm           == core.registers[Field(op, 0, 15)]
             shift_type   == Field(op, 5, 3)
             shift_amount == IF Field(op, 4, 1) = 1
                             THEN ToNat(And32(core.registers[Field(op, 8, 15)], U32(0, 31)))
                             ELSE Field(op, 7, 31)
         IN  CASE shift_type = 0 -> wrapping_shl(rm, shift_amount)
               [] shift_type = 1 -> wrapping_shr(rm, shift_amount)
               [] shift_type = 2 -> wrapping_shr_i32(rm, shift_amount)
               [] OTHER          -> rotate_right(rm, shift_amount)

\* The second operand of Cpu::impl_data_processing
operand2(core, op) ==
    IF Field(op, 25, 1) = 1
    THEN LET rotate == Field(op, 8, 15)
             imm    == U32(0, Field(op, 0, 255))
         IN  rotate_right(imm, 2 * rotate)
    ELSE LET rm           == core.registers[Field(op, 0, 15)]
             shift_type   == Field(op, 5, 3)
             shift_amount == IF Field(op, 4, 1) = 1
                             THEN ToNat(And32(core.registers[Field(op, 8, 15)], U32(0, 31)))
                             ELSE Field(op, 7, 31)
         IN  CASE shift_type = 0 -> wrapping_shl(rm, shift_amount)
               [] shift_type = 1 -> wrapping_shr(rm, shift_amount)
               [] shift_type = 2 -> wrapping_shr_i32(rm, shift_amount)
               [] OTHER          -> rotate_right(rm, shift_amount)

\* self.c as u32
carry_in(core) == IF core.c THEN U32(0, 1) ELSE ZERO32

\* alu with SBC and RSC without their - 1
alu_no_borrow(core, opcode, op1, op2) ==
    CASE opcode = 0  -> And32(op1, op2)
      [] opcode = 1  -> Xor32(op1, op2)
      [] opcode = 2  -> wrapping_sub(op1, op2)
      [] opcode = 3  -> wrapping_sub(op2, op1)
      [] opcode = 4  -> wrapping_add(op1, op2)
      [] opcode = 5  -> wrapping_add(wrapping_add(op1, op2), carry_in(core))
      [] opcode = 6  -> wrapping_add(wrapping_sub(op1, op2), carry_in(core))
      [] opcode = 7  -> wrapping_add(wrapping_sub(op2, op1), carry_in(core))
      [] opcode = 8  -> <<>>
      [] opcode = 9  -> <<>>
      [] opcode = 10 -> <<>>
      [] opcode = 11 -> <<>>
      [] opcode = 12 -> Or32(op1, op2)
      [] opcode = 13 -> op2
      [] opcode = 14 -> And32(op1, Not32(op2))
      [] OTHER       -> Not32(op2)

\* The match on opcode in Cpu::impl_data_processing: the value written to
\* registers[rd], or <<>> for the four opcodes that panic
alu(core, opcode, op1, op2) ==
    CASE opcode = 0  -> And32(op1, op2)
      [] opcode = 1  -> Xor32(op1, op2)
      [] opcode = 2  -> wrapping_sub(op1, op2)
      [] opcode = 3  -> wrapping_sub(op2, op1)
      [] opcode = 4  -> wrapping_add(op1, op2)
      [] opcode = 5  -> wrapping_add(wrapping_add(op1, op2), carry_in(core))
      [] opcode = 6  -> wrapping_sub(wrapping_add(wrapping_sub(op1, op2), carry_in(core)), U32(0, 1))
      [] opcode = 7  -> wrapping_sub(wrapping_add(wrapping_sub(op2, op1), carry_in(core)), U32(0, 1))
      [] opcode = 8  -> <<>>
      [] opcode = 9  -> <<>>
      [] opcode = 10 -> <<>>
      [] opcode = 11 -> <<>>
      [] opcode = 12 -> Or32(op1, op2)
      [] opcode = 13 -> op2
      [] opcode = 14 -> And32(op1, Not32(op2))
      [] OTHER       -> Not32(op2)

\* impl_data_processing setting Z from the result it writes
impl_data_processing_sets_z(core, op) ==
    LET opcode == Field(op, 21, 15)
        setcc  == Field(op, 20, 1) = 1
        rn     == Field(op, 16, 15)
        op1    == core.registers[rn]
        rd     == Field(op, 12, 15)
        op2    == operand2(core, op)
        res    == alu(core, opcode, op1, op2)
    IN  IF setcc THEN [core |-> core, panic |-> "setcc not yet implemented"]
        ELSE IF res = <<>> THEN [core |-> core, panic |-> "not yet implemented"]
        ELSE [core |-> [core EXCEPT !.registers[rd] = res, !.z = (res = ZERO32)], panic |-> ""]

\* Cpu::impl_data_processing.  debug_assert_eq!(_sel1, 0b00) is compiled only
\* with debug assertions; step1 calls this with bits 27:26 clear, so it never
\* fails there.
impl_data_processing(core, op) ==
    LET opcode == Field(op, 21, 15)
        setcc  == Field(op, 20, 1) = 1
        rn     == Field(op, 16, 15)
        op1    == core.registers[rn]
        rd     == Field(op, 12, 15)
        op2    == operand2(core, op)
        res    == alu(core, opcode, op1, op2)
    IN  IF setcc THEN [core |-> core, panic |-> "setcc not yet implemented"]
        ELSE IF res = <<>>
        THEN [core |-> core,
              panic |-> CASE opcode = 8 -> "tst not yet implemented"
                          [] opcode = 9 -> "teq not yet implemented"
                          [] opcode = 10 -> "cmp not yet implemented"
                          [] OTHER -> "cmn not yet implemented"]
        ELSE [core |-> [core EXCEPT !.registers[rd] = res], panic |-> ""]

\* registers[0] as u8 in the place of registers[0] as i32
as_u8(x) == [neg |-> FALSE, mag |-> U32(0, Lo(x) % 256)]

\* registers[0] as i32, the argument of std::process::exit: the same 32 bits,
\* read as a two's-complement number <<negative, magnitude>>
as_i32(x) ==
    IF Hi(x) >= 32768
    THEN [neg |-> TRUE,  mag |-> wrapping_sub(ZERO32, x)]
    ELSE [neg |-> FALSE, mag |-> x]

SC_EXIT == 1
SC_WRITE == 4
EBADF == 9
BUFFER_LEN == 512

\* The while loop of SC_WRITE in Cpu::impl_swi: size bytes from addr, in
\* chunks of at most buffer.len(), each read_bytes with READ and handed to
\* write_all.  accepted says whether the stream takes the bytes (write_all
\* returns Ok); unwrap panics otherwise.
RECURSIVE swi_write_loop(_, _, _, _, _)
swi_write_loop(mem, addr, size, accepted, chunks) ==
    IF size = ZERO32 THEN [ok |-> TRUE, panic |-> "", chunks |-> chunks]
    ELSE LET read == IF Lt32(size, U32(0, BUFFER_LEN)) THEN ToNat(size) ELSE BUFFER_LEN
         IN  Let(read_bytes(mem, addr, READ, read), LAMBDA r :
                 IF ~r.ok THEN [ok |-> FALSE, panic |-> r.panic, chunks |-> chunks]
                 ELSE IF ~accepted
                 THEN [ok |-> FALSE, panic |-> "write_all failed", chunks |-> chunks]
                 ELSE swi_write_loop(mem, wrapping_add(addr, FromNat(read)),
                                     wrapping_sub(size, FromNat(read)), accepted,
                                     Append(chunks, r.bytes)))

\* What a step that does nothing leaves: the Cpu as it was, the process
\* running, nothing written; op, fetched and cond record the word fetched
\* and the outcome of the condition match
outcome(core, op) ==
    [core |-> core, panic |-> "", exited |-> FALSE, exit_code |-> as_i32(ZERO32),
     fd |-> 0, chunks |-> <<>>, op |-> op, fetched |-> TRUE, cond |-> TRUE]

\* impl_swi with the write loop run before fileno is looked at
impl_swi_read_first(core, mem, op, accepted) ==
    IF core.registers[7] = U32(0, SC_EXIT)
    THEN [outcome(core, op) EXCEPT !.exited = TRUE, !.exit_code = as_i32(core.registers[0])]
    ELSE IF core.registers[7] = U32(0, SC_WRITE)
    THEN Let(swi_write_loop(mem, core.registers[1], core.registers[2], accepted, <<>>),
             LAMBDA w :
                IF w.panic # "" THEN [outcome(core, op) EXCEPT !.panic = w.panic]
                ELSE IF core.registers[0] \notin {U32(0, 1), U32(0, 2)}
                THEN [outcome(core, op) EXCEPT !.core.registers[0] = U32(0, EBADF)]
                ELSE [outcome(core, op) EXCEPT !.fd = Lo(core.registers[0]),
                                               !.chunks = w.chunks])
    ELSE [outcome(core, op) EXCEPT !.panic = "unimplemented SC_???"]

\* Cpu::impl_swi.  The two debug_assert!s hold for every word step1 hands
\* over (condition not 1111, bits 27:24 all set).
impl_swi(core, mem, op, accepted) ==
    IF core.registers[7] = U32(0, SC_EXIT)
    THEN [outcome(core, op) EXCEPT !.exited = TRUE, !.exit_code = as_i32(core.registers[0])]
    ELSE IF core.registers[7] = U32(0, SC_WRITE)
    THEN IF core.registers[0] \notin {U32(0, 1), U32(0, 2)}
         THEN [outcome(core, op) EXCEPT !.core.registers[0] = U32(0, EBADF)]
         ELSE Let(swi_write_loop(mem, core.registers[1], core.registers[2], accepted, <<>>),
                  LAMBDA w : [outcome(core, op) EXCEPT !.fd = Lo(core.registers[0]),
                                                       !.chunks = w.chunks, !.panic = w.panic])
    ELSE [outcome(core, op) EXCEPT !.panic = "unimplemented SC_???"]

\* op is the branch-and-exchange pattern: (op >> 4) & 0xFFFFFF == 0x12FFF1
is_bx(op) == And32(Shr32(op, 4), U32(255, 65535)) = U32(18, 65521)

\* step1_body looking for the BX pattern before it looks at the condition
step1_body_bx_first(core, mem, accepted, op) ==
    IF is_bx(op) THEN [outcome(core, op) EXCEPT !.panic = "BX not yet implemented"]
    ELSE IF ~cond_holds(core, op) THEN [outcome(core, op) EXCEPT !.cond = FALSE]
    ELSE IF Field(op, 20, 255) \in {40, 58}
    THEN Let(impl_data_processing(core, op), LAMBDA dp :
             [outcome(core, op) EXCEPT !.core = dp.core, !.panic = dp.panic])
    ELSE IF Field(op, 20, 255) >= 240 THEN impl_swi(core, mem, op, accepted)
    ELSE [outcome(core, op) EXCEPT !.panic = "unimplemented op"]

\* step1_body with the software-interrupt arm 0xF1 ..= 0xFF
step1_body_swi_from_f1(core, mem, accepted, op) ==
    IF ~cond_holds(core, op) THEN [outcome(core, op) EXCEPT !.cond = FALSE]
    ELSE IF is_bx(op) THEN [outcome(core, op) EXCEPT !.panic = "BX not yet implemented"]
    ELSE IF Field(op, 20, 255) \in {40, 58}
    THEN Let(impl_data_processing(core, op), LAMBDA dp :
             [outcome(core, op) EXCEPT !.core = dp.core, !.panic = dp.panic])
    ELSE IF Field(op, 20, 255) > 240 THEN impl_swi(core, mem, op, accepted)
    ELSE [outcome(core, op) EXCEPT !.panic = "unimplemented op"]

\* The body of step1 for the fetched word op: the condition match, then the
\* dispatch on bits 27:20
step1_body(core, mem, accepted, op) ==
    IF ~cond_holds(core, op) THEN [outcome(core, op) EXCEPT !.cond = FALSE]
    ELSE IF is_bx(op) THEN [outcome(core, op) EXCEPT !.panic = "BX not yet implemented"]
    ELSE IF Field(op, 20, 255) \in {40, 58}
    THEN Let(impl_data_processing(core, op), LAMBDA dp :
             [outcome(core, op) EXCEPT !.core = dp.core, !.panic = dp.panic])
    ELSE IF Field(op, 20, 255) >= 240 THEN impl_swi(core, mem, op, accepted)
    ELSE [outcome(core, op) EXCEPT !.panic = "unimplemented op"]

\* the advance of step1 by the size of a Thumb instruction
advance_pc_by_2(core) == [core EXCEPT !.registers[15] = wrapping_add(@, FromNat(2))]

\* self.registers[15] += 4 at the end of Cpu::step1
advance_pc(core) == [core EXCEPT !.registers[15] = wrapping_add(@, FromNat(4))]

\* The end of step1: reached unless the body panicked or left the process
step1_end(body) ==
    IF body.panic # "" \/ body.exited THEN body ELSE [body EXCEPT !.core = advance_pc(@)]

\* step1 after its fetch f
step1_fetched(core, mem, accepted, f) ==
    IF ~f.ok
    THEN [outcome(core, ZERO32) EXCEPT !.panic = f.panic, !.fetched = FALSE, !.cond = FALSE]
    ELSE Let(step1_body(core, mem, accepted, f.value), LAMBDA body : step1_end(body))

\* Cpu::step1: what one step does to the Cpu and to the process
step1(core, mem, accepted) ==
    Let(read_u32_aligned(mem, wrapping_sub(core.registers[15], FromNat(read_pc_offset)),
                         READ + EXECUTE),
        LAMBDA f : step1_fetched(core, mem, accepted, f))

(***************************************************************************)
(* The ELF32 loader and the run loop (src/src/elf32.rs)                    *)
(*                                                                         *)
(* Ehdr and Phdr are filled byte for byte from the file (bytes_of_mut), so *)
(* their fields are read in the byte order of the host: little-endian, as  *)
(* on every host the fields' checks can pass on.                           *)
(***************************************************************************)
EHDR_SIZE == 52
PHDR_SIZE == 32
EI_NIDENT == 16
ET_EXEC == 2
EM_ARM == 40
PT_NULL == 0
PT_LOAD == 1
PT_DYNAMIC == 2
PF_X == 1
PF_W == 2
PF_R == 4

\* a u16 / u32 field of a struct filled from the bytes b (0-based offsets)
le16(b, off) == b[off] + 256 * b[off + 1]
le32(b, off) == U32(le16(b, off + 2), le16(b, off))

\* Ehdr, from the 52 bytes read at offsets 0..51
Ehdr(b) ==
    [e_ident |-> [i \in 0..(EI_NIDENT - 1) |-> b[i]],
     e_type |-> le16(b, 16), e_machine |-> le16(b, 18), e_version |-> le32(b, 20),
     e_entry |-> le32(b, 24), e_phoff |-> le32(b, 28), e_shoff |-> le32(b, 32),
     e_flags |-> le32(b, 36), e_ehsize |-> le16(b, 40), e_phentsize |-> le16(b, 42),
     e_phnum |-> le16(b, 44), e_shentsize |-> le16(b, 46), e_shnum |-> le16(b, 48),
     e_shstrndx |-> le16(b, 50)]

\* Phdr::zeroed() with its first phdr_read bytes overwritten by the bytes of
\* the file at phdr_off
Phdr(src, phdr_off, phdr_read) ==
    LET b == [j \in 0..(PHDR_SIZE - 1) |-> IF j < phdr_read THEN src.at[phdr_off + j] ELSE 0]
    IN  [p_type |-> le32(b, 0), p_offset |-> le32(b, 4), p_vaddr |-> le32(b, 8),
         p_paddr |-> le32(b, 12), p_filesz |-> le32(b, 16), p_memsz |-> le32(b, 20),
         p_flags |-> le32(b, 24), p_align |-> le32(b, 28)]

\* The MemoryFlags a PT_LOAD segment's p_flags give
segment_flags(p_flags) ==
    flags_union(flags_union(
        IF Field(p_flags, 0, PF_X) # 0 THEN EXECUTE ELSE NONE,
        IF Field(p_flags, 0, PF_W) # 0 THEN WRITE ELSE NONE),
        IF Field(p_flags, 0, PF_R) # 0 THEN READ ELSE NONE)

\* The PT_LOAD arm of run after its init_zero (result zr): init_copy_io
copy_segment(zr, src, phdr, flags, partial) ==
    IF ~zr.ok THEN zr
    ELSE init_copy_io(zr.mem, phdr.p_vaddr, flags, src,
                      ToNat(phdr.p_offset), ToNat(phdr.p_filesz), partial)

\* The PT_LOAD arm of run: init_zero then init_copy_io, both at p_vaddr.
\* (Sizes and file offsets are taken as numbers below 2^31.)
load_segment(mem, src, phdr, partial) ==
    IF Lt32(phdr.p_memsz, phdr.p_filesz)
    THEN [ok |-> FALSE, err |-> "InvalidData: p_filesz exceeds p_memsz", mem |-> mem]
    ELSE Let(init_zero(mem, phdr.p_vaddr, segment_flags(phdr.p_flags),
                       ToNat(wrapping_sub(phdr.p_memsz, phdr.p_filesz))),
             LAMBDA zr : copy_segment(zr, src, phdr, segment_flags(phdr.p_flags), partial))

\* The for loop of run over the program headers iph .. e_phnum - 1.  segs and
\* walk are not values of the code: segs records the PT_LOAD headers mapped so
\* far, walk every header read so far with the Memory it was met with.
RECURSIVE load_phdrs(_, _, _, _, _, _, _)
RECURSIVE load_phdr(_, _, _, _, _, _, _, _)
RECURSIVE load_phdr_null_as_load(_, _, _, _, _, _, _, _)
RECURSIVE after_segment(_, _, _, _, _, _, _, _)

\* The for loop after a PT_LOAD header whose mapping gave seg
after_segment(src, ehdr, iph, partial, segs, walk, phdr, seg) ==
    IF ~seg.ok
    THEN [ok |-> FALSE, err |-> seg.err, mem |-> seg.mem, segs |-> segs, walk |-> walk]
    ELSE load_phdrs(src, ehdr, iph + 1, seg.mem, partial, Append(segs, phdr), walk)

\* load_phdr with PT_NULL mapped as PT_LOAD is
load_phdr_null_as_load(src, ehdr, iph, mem, partial, segs, walk, phdr) ==
    IF phdr.p_type \in {U32(0, PT_NULL), U32(0, PT_LOAD)}
    THEN Let(load_segment(mem, src, phdr, partial),
             LAMBDA seg : after_segment(src, ehdr, iph, partial, segs, walk, phdr, seg))
    ELSE IF phdr.p_type = U32(0, PT_DYNAMIC)
    THEN [ok |-> FALSE, err |-> "InvalidData: PT_DYNAMIC not yet supported",
          mem |-> mem, segs |-> segs, walk |-> walk]
    ELSE load_phdrs(src, ehdr, iph + 1, mem, partial, segs, walk)

\* The match on p_type for the header phdr just read
load_phdr(src, ehdr, iph, mem, partial, segs, walk, phdr) ==
    IF phdr.p_type = U32(0, PT_NULL)
    THEN load_phdrs(src, ehdr, iph + 1, mem, partial, segs, walk)
    ELSE IF phdr.p_type = U32(0, PT_LOAD)
    THEN Let(load_segment(mem, src, phdr, partial),
             LAMBDA seg : after_segment(src, ehdr, iph, partial, segs, walk, phdr, seg))
    ELSE IF phdr.p_type = U32(0, PT_DYNAMIC)
    THEN [ok |-> FALSE, err |-> "InvalidData: PT_DYNAMIC not yet supported",
          mem |-> mem, segs |-> segs, walk |-> walk]
    ELSE load_phdrs(src, ehdr, iph + 1, mem, partial, segs, walk)

load_phdrs(src, ehdr, iph, mem, partial, segs, walk) ==
    IF iph >= ehdr.e_phnum
    THEN [ok |-> TRUE, err |-> "", mem |-> mem, segs |-> segs, walk |-> walk]
    ELSE IF Hi(ehdr.e_phoff) >= 16384
            \/ ~read_exact_at(src, Min(PHDR_SIZE, ehdr.e_phentsize),
                              ToNat(ehdr.e_phoff) + iph * ehdr.e_phentsize).ok
    THEN [ok |-> FALSE, err |-> "Io", mem |-> mem, segs |-> segs, walk |-> walk]
    ELSE Let(Phdr(src, ToNat(ehdr.e_phoff) + iph * ehdr.e_phentsize,
                  Min(PHDR_SIZE, ehdr.e_phentsize)),
             LAMBDA phdr : load_phdr(src, ehdr, iph, mem, partial, segs,
                                     Append(walk, [iph |-> iph, phdr |-> phdr, mem |-> mem]),
                                     phdr))

\* check_fields without the check of e_phnum
check_fields_phnum_unchecked(e) ==
    IF e.e_type # ET_EXEC THEN "InvalidData: e_type != ET_EXEC"
    ELSE IF e.e_machine # EM_ARM THEN "InvalidData: e_machine != EM_ARM"
    ELSE IF e.e_version # U32(0, 1) THEN "InvalidData: only e_version == 1"
    ELSE IF e.e_phoff = ZERO32 THEN "InvalidData: e_phoff == 0"
    ELSE IF e.e_ehsize < EHDR_SIZE THEN "InvalidData: e_ehsize < size_of::<Ehdr>()"
    ELSE IF e.e_phentsize = 0 THEN "InvalidData: e_phentsize == 0"
    ELSE ""

\* The header checks of run on the header e, in order: "" when it passes
check_fields(e) ==
    IF e.e_type # ET_EXEC THEN "InvalidData: e_type != ET_EXEC"
    ELSE IF e.e_machine # EM_ARM THEN "InvalidData: e_machine != EM_ARM"
    ELSE IF e.e_version # U32(0, 1) THEN "InvalidData: only e_version == 1"
    ELSE IF e.e_phoff = ZERO32 THEN "InvalidData: e_phoff == 0"
    ELSE IF e.e_ehsize < EHDR_SIZE THEN "InvalidData: e_ehsize < size_of::<Ehdr>()"
    ELSE IF e.e_phentsize = 0 THEN "InvalidData: e_phentsize == 0"
    ELSE IF e.e_phnum = 0 THEN "InvalidData: e_phnum == 0"
    ELSE ""

\* The checks of run before Memory::new, in order: "" when the file passes
check_ehdr(src) ==
    IF ~read_exact_at(src, EI_NIDENT, 0).ok THEN "Io"
    ELSE IF <<src.at[0], src.at[1], src.at[2], src.at[3]>> # <<127, 69, 76, 70>>
    THEN "InvalidData: not an elf file (invalid magic)"
    ELSE IF src.at[4] # 1 THEN "InvalidData: only 32-bit elfs"
    ELSE IF src.at[5] # 1 THEN "InvalidData: only little-endian elfs"
    ELSE IF src.at[6] # 1 THEN "InvalidData: only EI_VERSION == 1"
    ELSE IF ~read_exact_at(src, EHDR_SIZE - EI_NIDENT, EI_NIDENT).ok THEN "Io"
    ELSE check_fields(Ehdr(src.at))

\* run after its program headers (result r): Cpu::new and
\* set_next_instruction_addr(e_entry)
loaded(r, entry) ==
    [ok |-> r.ok, err |-> r.err, mem_new |-> TRUE, mem |-> r.mem, segs |-> r.segs,
     walk |-> r.walk, entry |-> entry,
     core |-> IF r.ok THEN set_next_instruction_addr(Cpu_new, entry) ELSE Cpu_new]

\* run, up to its loop: the header checks, Memory::new, the program headers,
\* Cpu::new and set_next_instruction_addr(e_entry)
load(src, partial) ==
    IF check_ehdr(src) # ""
    THEN [ok |-> FALSE, err |-> check_ehdr(src), mem_new |-> FALSE, mem |-> Memory_new,
          segs |-> <<>>, walk |-> <<>>, entry |-> ZERO32, core |-> Cpu_new]
    ELSE Let(Ehdr(src.at), LAMBDA e :
             Let(load_phdrs(src, e, 0, Memory_new, partial, <<>>, <<>>),
                 LAMBDA r : loaded(r, e.e_entry)))

(***************************************************************************)
(* The actions of a run: run's loading part, and one turn of its loop      *)
(***************************************************************************)
MaxSteps == 12

\* an instruction that writes registers[15]: a data-processing word with Rd = 15
writes_pc(op) == ~is_bx(op) /\ Field(op, 20, 255) \in {40, 58} /\ Field(op, 12, 15) = 15

\* The state after a step1 that gave r
Stepped(r, accepted) ==
    /\ cpu' = r.core
    /\ proc' = [status |-> IF r.exited THEN "exited"
                           ELSE IF r.panic # "" THEN "panicked" ELSE "running",
                exit_code |-> r.exit_code, panic |-> r.panic]
    /\ out' = IF r.fd = 1 THEN [out EXCEPT !.stdout = @ \o r.chunks]
              ELSE IF r.fd = 2 THEN [out EXCEPT !.stderr = @ \o r.chunks]
              ELSE out
    /\ last' = [op |-> "step1", word |-> r.op, fetched |-> r.fetched,
                cond |-> r.cond, pre |-> cpu, out_before |-> out,
                accepted |-> accepted, entry |-> last.entry,
                jumped |-> last.jumped \/ (r.cond /\ writes_pc(r.op))]
    /\ nops' = nops + 1
    /\ UNCHANGED <<memory, elf, touched, readers, locks>>

\* loop { core.step1(&mem) }: one call of step1.  last keeps the word
\* fetched, whether its condition held, the Cpu and the output before the
\* step, the address the run started at and whether a step has written
\* registers[15] since.
Step ==
    /\ proc.status = "running"
    /\ nops < MaxSteps
    /\ \E accepted \in BOOLEAN : \E r \in {step1(cpu, memory, accepted)} : Stepped(r, accepted)

\* The state after run's loading part gave r
Loaded(r) ==
    /\ memory' = r.mem
    /\ cpu' = r.core
    /\ proc' = [proc EXCEPT !.status = IF r.ok THEN "running" ELSE "error",
                            !.panic = r.err]
    /\ last' = [op |-> "run", ok |-> r.ok, err |-> r.err, mem_new |-> r.mem_new,
                segs |-> r.segs, walk |-> r.walk, entry |-> r.entry, jumped |-> FALSE]
    /\ UNCHANGED <<out, elf, nops, touched, readers, locks>>

\* run(elf) up to its loop
Load ==
    /\ proc.status = "start"
    /\ \E partial \in BOOLEAN : \E r \in {load(elf, partial)} : Loaded(r)

(***************************************************************************)
(* ELF files handed to run                                                 *)
(***************************************************************************)
b16(x) == <<x % 256, x \div 256>>
b32(x) == b16(Lo(x)) \o b16(Hi(x))
RECURSIVE Flatten(_)
Flatten(ss) == IF ss = <<>> THEN <<>> ELSE Head(ss) \o Flatten(Tail(ss))

\* a byte source holding the bytes bs
AsSource(bs) == [len |-> Len(bs), at |-> [i \in 0..(Len(bs) - 1) |-> bs[i + 1]]]

\* the 52 header bytes of a well-formed little-endian ARM executable
GoodEhdr(entry, phnum) ==
    <<127, 69, 76, 70, 1, 1, 1, 0, 0, 0, 0, 0, 0, 0, 0, 0>>
    \o b16(ET_EXEC) \o b16(EM_ARM) \o b32(U32(0, 1)) \o b32(entry)
    \o b32(U32(0, EHDR_SIZE)) \o b32(ZERO32) \o b32(ZERO32)
    \o b16(EHDR_SIZE) \o b16(PHDR_SIZE) \o b16(phnum) \o b16(0) \o b16(0) \o b16(0)

PhdrBytes(type, offset, vaddr, filesz, memsz, pflags) ==
    b32(U32(0, type)) \o b32(FromNat(offset)) \o b32(vaddr) \o b32(vaddr)
    \o b32(FromNat(filesz)) \o b32(FromNat(memsz)) \o b32(U32(0, pflags)) \o b32(U32(0, 4))

\* an executable with one PT_LOAD segment holding data, entered at its start
OneSegment(vaddr, data, memsz, pflags) ==
    AsSource(GoodEhdr(vaddr, 1)
             \o PhdrBytes(PT_LOAD, EHDR_SIZE + PHDR_SIZE, vaddr, Len(data), memsz, pflags)
             \o data)

\* instruction words
MOV_IMM(rd, rot, imm) == U32(58272, rd * 4096 + rot * 256 + imm)         \* 0xE3A0....
ADD_IMM(rd, rn, imm) == U32(57984 + rn, rd * 4096 + imm)                 \* 0xE28.....
SWI_AL == U32(61184, 0)                                                  \* 0xEF000000
Code(words) == Flatten([i \in 1..Len(words) |-> b32(words[i])])

CODE_BASE == U32(0, 32768)      \* 0x00008000

\* MOV r7,#1; MOV r0,#<code>; SWI
ExitProgram(rot, imm) == Code(<<MOV_IMM(7, 0, 1), MOV_IMM(0, rot, imm), SWI_AL>>)

\* MOV r7,#4; MOV r0,#1; MOV r1,#0x8000; ADD r1,r1,#36; MOV r2,#2; SWI;
\* MOV r7,#1; MOV r0,#0; SWI; "hi"
HiProgram ==
    Code(<<MOV_IMM(7, 0, 4), MOV_IMM(0, 0, 1), MOV_IMM(1, 9, 2), ADD_IMM(1, 1, 36),
           MOV_IMM(2, 0, 2), SWI_AL, MOV_IMM(7, 0, 1), MOV_IMM(0, 0, 0), SWI_AL>>)
    \o <<104, 105>>

\* MOV r0,#0; ADD r1,r0,#0; MOVEQ r2,#1; MOVNE r3,#1; MOV r7,#4; MOV r0,#3;
\* SWI; MOV r7,#1; SWI
FlagProgram ==
    Code(<<MOV_IMM(0, 0, 0), ADD_IMM(1, 0, 0), U32(928, 8193), U32(5024, 12289),
           MOV_IMM(7, 0, 4), MOV_IMM(0, 0, 3), SWI_AL, MOV_IMM(7, 0, 1), SWI_AL>>)

ExitElf == OneSegment(CODE_BASE, ExitProgram(0, 42), 12, PF_R + PF_X)
FlagElf == OneSegment(CODE_BASE, FlagProgram, 36, PF_R + PF_X)
HiElf == OneSegment(CODE_BASE, HiProgram, 38, PF_R + PF_X)

\* segments of several places, sizes and permissions; their bytes are data
SegVaddrs == {U32(0, 32768), U32(0, 33788), U32(65535, 65532)}  \* 0x8000, 0x83FC, 0xFFFFFFFC
SegSizes == {<<0, 0>>, <<0, 8>>, <<4, 4>>, <<4, 8>>, <<1028, 1028>>, <<1028, 2056>>}
SegPerms == {PF_R, PF_R + PF_X, PF_R + PF_W}
Data(len) == [i \in 1..len |-> (i * 37 + 11) % 256]

\* the bytes bs with vals written over them from the 0-based offset off on
Patch(bs, off, vals) ==
    [i \in 1..Len(bs) |-> IF i - 1 >= off /\ i - 1 < off + Len(vals) THEN vals[i - off] ELSE bs[i]]
RECURSIVE PatchAll(_, _)
PatchAll(bs, ps) == IF ps = <<>> THEN bs ELSE PatchAll(Patch(bs, Head(ps)[1], Head(ps)[2]), Tail(ps))

ExitBytes == [i \in 1..ExitElf.len |-> ExitElf.at[i - 1]]

\* changes to the header of ExitElf, as <<offset, bytes>>: the four magic
\* bytes, EI_CLASS, EI_DATA, EI_VERSION, EI_OSABI, e_type, e_machine,
\* e_version, e_phoff, e_ehsize (51, 0, 53, 308), e_phentsize (0, 40, 8),
\* e_phnum, and two fields at once
HeaderPatches ==
    {<<<<0, <<0>>>>>>, <<<<1, <<101>>>>>>, <<<<2, <<0>>>>>>, <<<<3, <<71>>>>>>,
     <<<<4, <<2>>>>>>, <<<<4, <<0>>>>>>, <<<<5, <<2>>>>>>, <<<<6, <<0>>>>>>, <<<<7, <<3>>>>>>,
     <<<<16, b16(3)>>>>, <<<<16, b16(258)>>>>, <<<<18, b16(3)>>>>, <<<<18, b16(296)>>>>,
     <<<<20, b32(ZERO32)>>>>, <<<<20, b32(U32(1, 1))>>>>, <<<<28, b32(ZERO32)>>>>,
     <<<<40, b16(51)>>>>, <<<<40, b16(0)>>>>, <<<<40, b16(53)>>>>, <<<<40, b16(308)>>>>,
     <<<<42, b16(0)>>>>, <<<<42, b16(40)>>>>, <<<<42, b16(8)>>>>, <<<<44, b16(0)>>>>,
     <<<<0, <<0>>>>, <<44, b16(0)>>>>, <<<<16, b16(1)>>, <<28, b32(ZERO32)>>>>,
     <<<<6, <<2>>>>, <<42, b16(0)>>>>}
PatchedElfs == {AsSource(PatchAll(ExitBytes, ps)) : ps \in HeaderPatches}

\* files that end before the header does, with and without a changed field
TruncatedElfs ==
    {AsSource(SubSeq(PatchAll(ExitBytes, ps), 1, n)) :
        ps \in {<<>>, <<<<0, <<0>>>>>>, <<<<16, b16(3)>>>>}, n \in {0, 3, 10, 16, 51}}

\* program header tables of up to MaxPhdrs entries, each entry one of:
\*   null     PT_NULL with the fields of a segment at 0xA000
\*   load     PT_LOAD at 0x8000, 4 bytes of 8, readable and executable
\*   load2    PT_LOAD at 0x9000, 4 bytes of 4, readable and writable
\*   big      PT_LOAD at 0xB000 with p_filesz = 0x10000 and p_memsz = 0xFFFF
\*   dynamic  PT_DYNAMIC
\*   arm      type 0x70000001 with the fields of a segment at 0xD000
\*   high     type 0x00010001 with the fields of a segment at 0xE000
MaxPhdrs == 3
TableKinds == {"null", "load", "load2", "big", "dynamic", "arm", "high"}
KindBytes(kind, off) ==
    CASE kind = "null"    -> PhdrBytes(PT_NULL, off, U32(0, 40960), 4, 8, PF_R)
      [] kind = "load"    -> PhdrBytes(PT_LOAD, off, CODE_BASE, 4, 8, PF_R + PF_X)
      [] kind = "load2"   -> PhdrBytes(PT_LOAD, off, U32(0, 36864), 4, 4, PF_R + PF_W)
      [] kind = "big"     -> PhdrBytes(PT_LOAD, off, U32(0, 45056), 65536, 65535, PF_R)
      [] kind = "dynamic" -> PhdrBytes(PT_DYNAMIC, off, U32(0, 49152), 4, 8, PF_R)
      [] kind = "arm"     -> Patch(PhdrBytes(PT_LOAD, off, U32(0, 53248), 4, 8, PF_R),
                                   0, b32(U32(28672, 1)))
      [] kind = "high"    -> Patch(PhdrBytes(PT_LOAD, off, U32(0, 57344), 4, 8, PF_R),
                                   0, b32(U32(1, 1)))

\* the header, the table of the given kinds, and four bytes for the segments
TableElf(kinds) ==
    AsSource(GoodEhdr(CODE_BASE, Len(kinds))
             \o Flatten([i \in 1..Len(kinds) |->
                            KindBytes(kinds[i], EHDR_SIZE + PHDR_SIZE * Len(kinds))])
             \o Data(4))
TableElfs == {TableElf(kinds) : kinds \in UNION {[1..n -> TableKinds] : n \in 1..MaxPhdrs}}

ElfFiles ==
    {ExitElf, HiElf, FlagElf}
    \cup {OneSegment(CODE_BASE, ExitProgram(rot, 255), 12, PF_R + PF_X) : rot \in {0, 4}}
    \cup {OneSegment(va, Data(sz[1]), sz[2], pf) :
            va \in SegVaddrs, sz \in SegSizes, pf \in SegPerms}
    \cup PatchedElfs \cup TruncatedElfs

Init ==
    /\ elf \in ElfFiles
    /\ memory = Memory_new
    /\ cpu = Cpu_new
    /\ proc = [status |-> "start", exit_code |-> as_i32(ZERO32), panic |-> ""]
    /\ out = [stdout |-> <<>>, stderr |-> <<>>]
    /\ last = [op |-> "none", entry |-> ZERO32, jumped |-> FALSE]
    /\ nops = 0
    /\ touched = {}
    /\ readers = <<>>
    /\ locks = <<>>

Next == Load \/ Step

Spec == Init /\ [][Next]_vars

\* run is called, and its loop never pauses
FairSpec == Spec /\ WF_vars(Next)

\* SpecPhdrs: run on the files of TableElfs
InitPhdrs ==
    /\ elf \in TableElfs
    /\ memory = Memory_new
    /\ cpu = Cpu_new
    /\ proc = [status |-> "start", exit_code |-> as_i32(ZERO32), panic |-> ""]
    /\ out = [stdout |-> <<>>, stderr |-> <<>>]
    /\ last = [op |-> "none", entry |-> ZERO32, jumped |-> FALSE]
    /\ nops = 0
    /\ touched = {}
    /\ readers = <<>>
    /\ locks = <<>>

SpecPhdrs == InitPhdrs /\ [][Next]_vars

(***************************************************************************)
(* SpecCpu: a harness that calls set_next_instruction_addr and step1 on a  *)
(* Cpu with given registers and flags                                      *)
(***************************************************************************)
ENTRY_LOW == U32(0, 33784)            \* 0x000083F8: two words before a page ends
ENTRY_TOP == U32(65535, 65528)        \* 0xFFFFFFF8: the last two words of the address space
DATA_BASE == U32(0, 36864)            \* 0x00009000
DataLen == 2048
Entries == {ENTRY_LOW, ENTRY_TOP}

WithCode(mem, base, words) ==
    init_copy_io(mem, base, READ + EXECUTE, AsSource(Code(words)), 0, 4 * Len(words), FALSE).mem
\* two readable pages of data
DataMemory ==
    init_copy_io(Memory_new, DATA_BASE, READ, AsSource(Data(DataLen)), 0, DataLen, FALSE).mem

\* the data, and the word w followed by MOV r0,#42 at both entries
CpuMemory(w) ==
    WithCode(WithCode(DataMemory, ENTRY_LOW, <<w, MOV_IMM(0, 0, 42)>>),
             ENTRY_TOP, <<w, MOV_IMM(0, 0, 42)>>)

\* instruction bodies (bits 27:0): MOV r0,#42; SWI; BX r14; LDR r0,[r0]
CondBodies == {U32(928, 42), U32(3840, 0), U32(303, 65310), U32(1424, 0)}
WithCond(cc, body) == U32(cc * 4096 + Hi(body), Lo(body))
Flags == [z : BOOLEAN, c : BOOLEAN, n : BOOLEAN, v : BOOLEAN]
NoFlags == [z |-> FALSE, c |-> FALSE, n |-> FALSE, v |-> FALSE]
Regs(r0, r1, r2, r7) ==
    [i \in 0..15 |-> CASE i = 0 -> r0 [] i = 1 -> r1 [] i = 2 -> r2 [] i = 7 -> r7
                       [] OTHER -> ZERO32]
ALL_ONES == U32(65535, 65535)

\* every condition code against every combination of the flags
CondCases ==
    {[word |-> WithCond(cc, body), regs |-> Regs(ZERO32, ZERO32, ZERO32, U32(0, 1)), flags |-> f] :
        cc \in 0..15, body \in CondBodies, f \in Flags}

\* software interrupts
SwiNumbers == {U32(0, 1), U32(0, 4), U32(0, 5)}
SwiFiles == {ZERO32, U32(0, 1), U32(0, 2), U32(0, 3), ALL_ONES}
SwiAddrs == {DATA_BASE, U32(0, 38399), ZERO32, U32(65535, 65534), ALL_ONES}
SwiSizes == {ZERO32, U32(0, 2), U32(0, 513), ALL_ONES}
SwiCases ==
    {[word |-> SWI_AL, regs |-> Regs(r0, r1, r2, r7), flags |-> NoFlags] :
        r0 \in SwiFiles, r1 \in SwiAddrs, r2 \in SwiSizes, r7 \in SwiNumbers}

\* data processing: MOV r15,#0x8000; ADD r15,r15,#0; ADD r0,r1,#1;
\* ADD r14,r15,#4; MOV r3,#0xFF000000
DataWords == {MOV_IMM(15, 9, 2), ADD_IMM(15, 15, 0), ADD_IMM(0, 1, 1), ADD_IMM(14, 15, 4),
              MOV_IMM(3, 4, 255)}
DataCases ==
    {[word |-> w, regs |-> Regs(ZERO32, ALL_ONES, ZERO32, ZERO32), flags |-> f] :
        w \in DataWords, f \in {NoFlags, [z |-> TRUE, c |-> TRUE, n |-> TRUE, v |-> TRUE]}}

\* the register-operand form: ADD r0,r1,r2 (0xE0810002) with r0 = 5,
\* r1 = 0xFFFFFFFF or 1, r2 = 1
ADD_R0_R1_R2 == U32(57473, 2)
RegCases ==
    {[word |-> ADD_R0_R1_R2, regs |-> Regs(U32(0, 5), r1, U32(0, 1), ZERO32), flags |-> NoFlags] :
        r1 \in {ALL_ONES, U32(0, 1)}}

\* software interrupts under every condition code: an unknown syscall
\* (r7 = 5) and a write to stdout (r7 = 4)
SkipCases ==
    {[word |-> WithCond(cc, U32(3840, 0)), regs |-> Regs(U32(0, 1), DATA_BASE, U32(0, 2), r7),
      flags |-> f] :
        cc \in 0..15, r7 \in {U32(0, 4), U32(0, 5)},
        f \in {NoFlags, [z |-> TRUE, c |-> TRUE, n |-> TRUE, v |-> TRUE]}}

\* condition AL with every value of bits 27:20, Rn = 1 and Rn = 15, and low
\* halves 0x0001, 0xFF1E (with 0x12F above it: BX r14) and 0xFF3E; r7 = 5
DispatchCases ==
    {[word |-> U32(57344 + class * 16 + rn, low), regs |-> Regs(U32(0, 5), ALL_ONES, U32(0, 1), U32(0, 5)),
      flags |-> NoFlags] :
        class \in 0..255, rn \in {1, 15}, low \in {1, 65310, 65342}}

InitCpu ==
    /\ \E sc \in CondCases \cup SwiCases \cup DataCases \cup RegCases \cup SkipCases
                \cup DispatchCases :
        /\ memory = CpuMemory(sc.word)
        /\ cpu = [registers |-> sc.regs, z |-> sc.flags.z, c |-> sc.flags.c,
                  n |-> sc.flags.n, v |-> sc.flags.v]
    /\ proc = [status |-> "harness", exit_code |-> as_i32(ZERO32), panic |-> ""]
    /\ out = [stdout |-> <<>>, stderr |-> <<>>]
    /\ elf = [len |-> 0, at |-> <<>>]
    /\ last = [op |-> "none", entry |-> ZERO32, jumped |-> FALSE]
    /\ nops = 0
    /\ touched = {}
    /\ readers = <<>>
    /\ locks = <<>>

\* Cpu::set_next_instruction_addr(addr)
SetNextInstructionAddr ==
    /\ proc.status = "harness"
    /\ \E addr \in Entries :
        /\ cpu' = set_next_instruction_addr(cpu, addr)
        /\ last' = [op |-> "set_next_instruction_addr", entry |-> addr, jumped |-> FALSE]
    /\ proc' = [proc EXCEPT !.status = "running"]
    /\ UNCHANGED <<memory, out, elf, nops, touched, readers, locks>>

NextCpu == SetNextInstructionAddr \/ Step

SpecCpu == InitCpu /\ [][NextCpu]_vars

(***************************************************************************)
(* SpecAlu: a harness that calls impl_data_processing on a Cpu with given  *)
(* registers and flags, for data-processing words of every opcode and      *)
(* every form of the second operand                                        *)
(***************************************************************************)
\* a data-processing word with condition AL: bit 25, opcode, bit 20, Rn, Rd
\* and the twelve bits of the second operand
DataWord(imm, opcode, setcc, rn, rd, operand) ==
    U32(57344 + imm * 512 + opcode * 32 + setcc * 16 + rn, rd * 4096 + operand)

\* rotated immediates <<rotate, imm>>: 0xFF; 0xCC by 4; 0x81 by 30; 0xFF by 8; 1 by 16
ImmOperands == {rot[1] * 256 + rot[2] : rot \in {<<0, 255>>, <<2, 204>>, <<15, 129>>, <<4, 255>>, <<8, 1>>}}
\* Rm shifted by the amount in bits 11:7 (bit 4 clear)
ShiftImmOperands ==
    {amount * 128 + type * 32 + rm : amount \in {0, 1, 16, 31}, type \in 0..3, rm \in {2, 3, 4}}
\* Rm shifted by the amount in register Rs (bit 4 set): r0 = 5, r5 = 33, r6 = 0x11F
ShiftRegOperands ==
    {rs * 256 + type * 32 + 16 + rm : rs \in {0, 5, 6}, type \in 0..3, rm \in {2, 3, 4}}

\* <<Rn, Rd>>
AluRegisters == {<<1, 0>>, <<4, 4>>, <<3, 15>>, <<15, 2>>}

AluWords ==
    {DataWord(1, opcode, setcc, r[1], r[2], operand) :
        opcode \in 0..15, setcc \in 0..1, r \in AluRegisters, operand \in ImmOperands}
    \cup {DataWord(0, opcode, setcc, r[1], r[2], operand) :
        opcode \in 0..15, setcc \in 0..1, r \in AluRegisters,
        operand \in ShiftImmOperands \cup ShiftRegOperands}

\* r0 = 5, r1 = 0xFFFFFFFF, r2 = 1, r3 = 0x80000001, r4 = 0x12345678, r5 = 33,
\* r6 = 0x0000011F, r15 = 0x00008008
AluRegs ==
    [i \in 0..15 |-> CASE i = 0 -> U32(0, 5) [] i = 1 -> ALL_ONES [] i = 2 -> U32(0, 1)
                        [] i = 3 -> U32(32768, 1) [] i = 4 -> U32(4660, 22136)
                        [] i = 5 -> U32(0, 33) [] i = 6 -> U32(0, 287)
                        [] i = 15 -> U32(0, 32776) [] OTHER -> ZERO32]

\* no flag set, the carry alone, every flag
AluFlags == {NoFlags, [NoFlags EXCEPT !.c = TRUE],
             [z |-> TRUE, c |-> TRUE, n |-> TRUE, v |-> TRUE]}

InitAlu ==
    /\ \E f \in AluFlags : cpu = [registers |-> AluRegs, z |-> f.z, c |-> f.c, n |-> f.n, v |-> f.v]
    /\ memory = Memory_new
    /\ proc = [status |-> "harness", exit_code |-> as_i32(ZERO32), panic |-> ""]
    /\ out = [stdout |-> <<>>, stderr |-> <<>>]
    /\ elf = [len |-> 0, at |-> <<>>]
    /\ last = [op |-> "none", word |-> ZERO32, pre |-> Cpu_new]
    /\ nops = 0
    /\ touched = {}
    /\ readers = <<>>
    /\ locks = <<>>

\* Cpu::impl_data_processing(op)
DataProcessing ==
    /\ proc.status = "harness"
    /\ \E op \in AluWords : \E r \in {impl_data_processing(cpu, op)} :
        /\ cpu' = r.core
        /\ proc' = [proc EXCEPT !.status = IF r.panic = "" THEN "returned" ELSE "panicked",
                                !.panic = r.panic]
        /\ last' = [op |-> "impl_data_processing", word |-> op, pre |-> cpu]
    /\ nops' = nops + 1
    /\ UNCHANGED <<memory, out, elf, touched, readers, locks>>

NextAlu == DataProcessing

SpecAlu == InitAlu /\ [][NextAlu]_vars

(***************************************************************************)
(* SpecMem: a harness that owns a Memory and calls its public operations   *)
(***************************************************************************)
MaxInits == 2
SrcLen == 1030

\* The byte source copied from: SrcLen bytes, some of them zero
Source == [len |-> SrcLen, at |-> [i \in 0..(SrcLen - 1) |-> (i * 37 + 11) % 256]]

MemBases == {U32(0, 33790), U32(65535, 65532)}      \* 0x000083FE, 0xFFFFFFFC
MemFlags == {READ, READ + EXECUTE}
MemLens == {0, 2, 1027}
\* the (len, source_offset) pairs of the copies: a short one and a three-page one,
\* from different places of the source so that one overwrites the other
CopyRanges == {<<2, 8>>, <<1027, 3>>}
\* a short copy and a three-page one for which the source ends inside the
\* second page
ShortRanges == {<<2, 8>>, <<1027, 8>>}
\* 0x000083FE, 0x00008400, 0x00020000, 0xFFFFFFFC, 0xFFFFFFFE
ReadAddrs == {U32(0, 33790), U32(0, 33792), U32(2, 0), U32(65535, 65532), U32(65535, 65534)}
ReadFlags == {NONE, READ, READ + EXECUTE}
ReadLens == {0, 3, 1025}

InitMem ==
    /\ memory = Memory_new
    /\ cpu = Cpu_new
    /\ proc = [status |-> "harness", exit_code |-> as_i32(ZERO32), panic |-> ""]
    /\ out = [stdout |-> <<>>, stderr |-> <<>>]
    /\ elf = [len |-> 0, at |-> <<>>]
    /\ last = [op |-> "new", addr |-> ZERO32, flags |-> NONE, len |-> 0, off |-> 0,
               ok |-> TRUE, err |-> "", bytes |-> <<>>, value |-> <<>>]
    /\ nops = 0
    /\ touched = {}
    /\ readers = <<>>
    /\ locks = <<>>

MemInitZero ==
    \E base \in MemBases, flags \in MemFlags, len \in MemLens :
        LET r == init_zero(memory, base, flags, len)
        IN  /\ proc.status = "harness"
            /\ nops < MaxInits
            /\ memory' = r.mem
            /\ last' = [op |-> "init_zero", addr |-> base, flags |-> flags, len |-> len,
                        off |-> 0, ok |-> r.ok, err |-> r.err, bytes |-> <<>>, value |-> <<>>]
            /\ nops' = nops + 1
            /\ touched' = touched \cup r.seen
            /\ UNCHANGED <<cpu, proc, out, elf, readers, locks>>

MemInitCopyFrom(ranges) ==
    \E base \in MemBases, flags \in MemFlags, range \in ranges, partial \in BOOLEAN :
        LET len    == range[1]
            offset == range[2]
            r      == init_copy_io(memory, base, flags, Source, offset, len, partial)
        IN  /\ proc.status = "harness"
            /\ nops < MaxInits
            /\ memory' = r.mem
            /\ last' = [op |-> "init_copy", addr |-> base, flags |-> flags, len |-> len,
                        off |-> offset, ok |-> r.ok, err |-> r.err, bytes |-> <<>>,
                        value |-> <<>>]
            /\ nops' = nops + 1
            /\ touched' = touched \cup r.seen
            /\ UNCHANGED <<cpu, proc, out, elf, readers, locks>>

MemInitCopy == MemInitCopyFrom(CopyRanges)

\* The record of a read.  A read leaves the Memory as it is, so the harness
\* ends its run with it: one read after any sequence of init calls stands for
\* every read made in between.
MemRead(op, addr, flags, len, r) ==
    /\ proc.status = "harness"
    /\ proc' = [proc EXCEPT !.status = IF r.ok THEN "read" ELSE "panicked",
                            !.panic = r.panic]
    /\ last' = [op |-> op, addr |-> addr, flags |-> flags, len |-> len, off |-> 0,
                ok |-> r.ok, err |-> r.panic, bytes |-> r.bytes, value |-> r.value]
    /\ UNCHANGED <<memory, cpu, out, elf, nops, touched, readers, locks>>

MemReadAligned ==
    \E addr \in ReadAddrs, flags \in ReadFlags :
        \/ MemRead("read_u8", addr, flags, 1, read_u8(memory, addr, flags))
        \/ MemRead("read_u16_aligned", addr, flags, 2, read_u16_aligned(memory, addr, flags))
        \/ MemRead("read_u32_aligned", addr, flags, 4, read_u32_aligned(memory, addr, flags))
        \/ MemRead("read_u64_aligned", addr, flags, 8, read_u64_aligned(memory, addr, flags))

MemReadUnaligned ==
    \E addr \in ReadAddrs, flags \in ReadFlags :
        \/ MemRead("read_u16_unaligned", addr, flags, 2, read_u16_unaligned(memory, addr, flags))
        \/ MemRead("read_u32_unaligned", addr, flags, 4, read_u32_unaligned(memory, addr, flags))
        \/ MemRead("read_u64_unaligned", addr, flags, 8, read_u64_unaligned(memory, addr, flags))

MemReadBytes ==
    \E addr \in ReadAddrs, flags \in ReadFlags, len \in ReadLens :
        LET r == read_bytes(memory, addr, flags, len)
        IN  MemRead("read_bytes", addr, flags, len,
                    [ok |-> r.ok, panic |-> r.panic, bytes |-> r.bytes, value |-> <<>>])

NextMem == MemInitZero \/ MemInitCopy \/ MemReadAligned \/ MemReadUnaligned \/ MemReadBytes

SpecMem == InitMem /\ [][NextMem]_vars

\* SpecShort: the same harness with copies that run out of source bytes
MemInitCopyShort == MemInitCopyFrom(ShortRanges)

NextShort ==
    MemInitZero \/ MemInitCopyShort \/ MemReadAligned \/ MemReadUnaligned \/ MemReadBytes

SpecShort == InitMem /\ [][NextShort]_vars

(***************************************************************************)
(* SpecLock: several execution contexts inside Memory's reads at once.     *)
(* A read is unfolded into the steps at which it takes and drops the       *)
(* MutexGuard of a page (mem.rs:79-102)                                    *)
(***************************************************************************)
NumReaders == 2
Contexts == 1..NumReaders

\* Mutex::new: nobody owns it and it is not poisoned
Mutex_new == [owner |-> 0, poisoned |-> FALSE]

\* self.pages[page_idx] as a Mutex, for page_idx < NUM_PAGES
mutex_at(lk, page_idx) == IF page_idx \in DOMAIN lk THEN lk[page_idx] ELSE Mutex_new

\* MutexGuard::drop on each page of ps: the Mutex is unlocked, and poisoned
\* when the thread that drops the guard is panicking
drop_guards(lk, ps, panicking) ==
    [i \in DOMAIN lk \cup (IF panicking THEN ps ELSE {}) |->
        IF i \in ps
        THEN [owner |-> 0, poisoned |-> panicking \/ mutex_at(lk, i).poisoned]
        ELSE lk[i]]

\* a context that is in no read
Reader_new == [pc |-> "idle", call |-> [kind |-> "none"], page_idx |-> 0, offset |-> 0,
               remaining |-> 0, bytes |-> <<>>, held |-> {}, panic |-> ""]

\* read_aligned and read_unaligned up to the first lock: page_idx and
\* offset are taken from addr; read_unaligned returns at once when there is
\* nothing to read
begin_read(call) ==
    [pc        |-> IF call.kind = "unaligned" /\ call.len = 0 THEN "done" ELSE "lock",
     call      |-> call,
     page_idx  |-> ToNat(Shr32(call.addr, PAGE_SHIFT)),
     offset    |-> ToNat(And32(call.addr, U32(0, PAGE_SIZE - 1))),
     remaining |-> call.len,
     bytes     |-> <<>>,
     held      |-> {},
     panic     |-> ""]

\* a panic unwinds the read: every guard the context holds is dropped
panicked(r, why) == [r EXCEPT !.pc = "panicked", !.held = {}, !.panic = why]

\* self.pages[page_idx].lock().unwrap(), once the Mutex is free: the index
\* is checked, a poisoned Mutex makes unwrap panic (the guard inside the
\* PoisonError is dropped), and otherwise the context holds the guard
lock_page(r, lk) ==
    IF r.page_idx >= NUM_PAGES THEN panicked(r, "index out of bounds")
    ELSE IF mutex_at(lk, r.page_idx).poisoned THEN panicked(r, "PoisonError")
    ELSE [r EXCEPT !.pc = "locked", !.held = @ \cup {r.page_idx}]

\* the assert! on the page's flags and copy_from_slice, under the guard
access_page(r, mem) ==
    LET page == page_at(mem, r.page_idx)
        read == IF r.call.kind = "aligned" THEN r.remaining
                ELSE Min(PAGE_SIZE - r.offset, r.remaining)
    IN  IF ~contains(page.flags, r.call.flags) THEN panicked(r, "not mapped for read")
        ELSE IF r.offset + read > PAGE_DATA_BYTES THEN panicked(r, "slice index")
        ELSE [r EXCEPT !.pc = "copied",
                       !.bytes = @ \o [i \in 1..read |-> bytes(page, r.offset + i - 1)],
                       !.remaining = @ - read]

\* the end of the loop body with the guard kept until read_unaligned returns
end_of_access_guard_kept(r) ==
    IF r.call.kind = "aligned" \/ r.remaining = 0
    THEN [r EXCEPT !.pc = "done", !.held = {}]
    ELSE [r EXCEPT !.pc = "lock", !.page_idx = @ + 1, !.offset = 0]

\* the end of read_aligned, and of the loop body of read_unaligned: the
\* guard is dropped; read_unaligned goes on with the next page while bytes
\* are left to read
end_of_access(r) ==
    IF r.call.kind = "aligned" THEN [r EXCEPT !.pc = "done", !.held = {}]
    ELSE [r EXCEPT !.pc = IF r.remaining = 0 THEN "done" ELSE "lock",
                   !.page_idx = @ + 1, !.offset = 0, !.held = {}]

\* the Memory the contexts read: pages 32 and 33 (0x8000..0x87FF) readable
\* with bytes of Source, page 34 not mapped, the last page readable
LockMemory ==
    init_zero(init_copy_io(Memory_new, U32(0, 32768), READ, Source, 0, 1030, FALSE).mem,
              U32(65535, 64512), READ, PAGE_SIZE).mem

\* read_u32_aligned(0x8000), read_u8(0x8400, READ | WRITE),
\* read_u32_unaligned(0x83FE), read_bytes(0x83FE, 1027) with READ and with
\* NONE, read_bytes(0x8000, 0), read_u32_unaligned(0xFFFFFFFE)
ReadCalls ==
    {[kind |-> "aligned",   addr |-> U32(0, 32768),     flags |-> READ,         len |-> 4],
     [kind |-> "aligned",   addr |-> U32(0, 33792),     flags |-> READ + WRITE, len |-> 1],
     [kind |-> "unaligned", addr |-> U32(0, 33790),     flags |-> READ,         len |-> 4],
     [kind |-> "unaligned", addr |-> U32(0, 33790),     flags |-> READ,         len |-> 1027],
     [kind |-> "unaligned", addr |-> U32(0, 33790),     flags |-> NONE,         len |-> 1027],
     [kind |-> "unaligned", addr |-> U32(0, 32768),     flags |-> READ,         len |-> 0],
     [kind |-> "unaligned", addr |-> U32(65535, 65534), flags |-> READ,         len |-> 4]}

InitLock ==
    /\ memory = LockMemory
    /\ cpu = Cpu_new
    /\ proc = [status |-> "harness", exit_code |-> as_i32(ZERO32), panic |-> ""]
    /\ out = [stdout |-> <<>>, stderr |-> <<>>]
    /\ elf = [len |-> 0, at |-> <<>>]
    /\ last = [op |-> "new"]
    /\ nops = 0
    /\ touched = {}
    /\ readers = [c \in Contexts |-> Reader_new]
    /\ locks = <<>>

\* what a step of context c leaves: its own record, and the guards it
\* dropped (poisoned when it dropped them by panicking)
ReaderStep(c, r) ==
    /\ readers' = [readers EXCEPT ![c] = r]
    /\ locks' = LET taken   == [i \in DOMAIN locks \cup (r.held \ readers[c].held) |->
                                  IF i \in r.held \ readers[c].held
                                  THEN [owner |-> c, poisoned |-> FALSE]
                                  ELSE locks[i]]
                    dropped == readers[c].held \ r.held
                    after   == drop_guards(taken, dropped, r.pc = "panicked")
                IN  [i \in {j \in DOMAIN after : after[j] # Mutex_new} |-> after[i]]
    /\ UNCHANGED <<memory, cpu, proc, out, elf, last, nops, touched>>

\* context c calls one of the reads
ReaderCall(c) ==
    /\ readers[c].pc = "idle"
    /\ \E call \in ReadCalls : ReaderStep(c, begin_read(call))

\* lock() returns to context c: it blocks while another context owns the Mutex
ReaderLock(c) ==
    /\ readers[c].pc = "lock"
    /\ readers[c].page_idx < NUM_PAGES => mutex_at(locks, readers[c].page_idx).owner = 0
    /\ ReaderStep(c, lock_page(readers[c], locks))

ReaderAccess(c) ==
    /\ readers[c].pc = "locked"
    /\ ReaderStep(c, access_page(readers[c], memory))

ReaderRelease(c) ==
    /\ readers[c].pc = "copied"
    /\ ReaderStep(c, end_of_access(readers[c]))

\* a step inside a read
ReadProgress ==
    \/ \E c \in Contexts : ReaderRelease(c)
    \/ \E c \in Contexts : ReaderLock(c)
    \/ \E c \in Contexts : ReaderAccess(c)

NextLock == (\E c \in Contexts : ReaderCall(c)) \/ ReadProgress

SpecLock == InitLock /\ [][NextLock]_vars

(***************************************************************************)
(* Claims about Memory, checked under SpecMem                              *)
(***************************************************************************)
FlagSet(f) == {b \in {READ, WRITE, EXECUTE} : (f \div b) % 2 = 1}

\* every page of the set is inside the table and carries all the flags of f
AllCarry(mem, idxs, f) ==
    \A i \in idxs : i < NUM_PAGES /\ FlagSet(f) \subseteq FlagSet(page_at(mem, i).flags)

AlignedReads == {"read_u8", "read_u16_aligned", "read_u32_aligned", "read_u64_aligned"}
UnalignedReads == {"read_u16_unaligned", "read_u32_unaligned", "read_u64_unaligned",
                   "read_bytes"}
InAddressSpace(addr, len) == \A i \in pages_of(addr, len) : i < NUM_PAGES
FirstPage(addr) == Hi(addr) * (M16 \div PAGE_SIZE) + Lo(addr) \div PAGE_SIZE

\* C6 as stated: a read of a range inside the address space, of any of the
\* four kinds, succeeds if and only if every page the range touches carries
\* all the requested flags.
C6_Original ==
    (last.op \in AlignedReads \cup UnalignedReads /\ InAddressSpace(last.addr, last.len))
        => (last.ok <=> AllCarry(memory, pages_of(last.addr, last.len), last.flags))

\* C6, amended: an unaligned read or read_bytes of a range inside the address
\* space succeeds if and only if every page the range touches carries all the
\* requested flags; an aligned read succeeds if and only if the page holding
\* its first byte does (it checks no other page); a failed read is a fatal
\* fault and returns no value.
C6_ReadPermission ==
    /\ (last.op \in UnalignedReads /\ InAddressSpace(last.addr, last.len))
        => (last.ok <=> AllCarry(memory, pages_of(last.addr, last.len), last.flags))
    /\ last.op \in AlignedReads
        => (last.ok <=> AllCarry(memory, {FirstPage(last.addr)}, last.flags))
    /\ (last.op \in AlignedReads \cup UnalignedReads /\ ~last.ok)
        => (proc.status = "panicked" /\ last.bytes = <<>> /\ last.value = <<>>)

\* C6 witness: a read across a page boundary succeeded with fewer flags
\* requested than the two pages carry.
C6_Witness ==
    /\ last.op = "read_u32_unaligned" /\ last.ok
    /\ last.flags = READ
    /\ Cardinality(pages_of(last.addr, last.len)) = 2
    /\ \A i \in pages_of(last.addr, last.len) :
            page_at(memory, i).flags = READ + EXECUTE

\* C7 as stated: read_u8 of an address in a page no init call touched
\* returns 0, whatever flags it asks for, and the page has no backing storage.
C7_Original ==
    (last.op = "read_u8" /\ FirstPage(last.addr) \notin touched)
        => (last.ok /\ last.value = <<0>>
            /\ ~page_at(memory, FirstPage(last.addr)).data.some)

\* C7, amended: a page no init call touched has no backing storage and no
\* flags; read_u8 of an address in it returns 0 when it asks for no flag
\* (MemoryFlags::NONE) and is a fatal fault when it asks for any flag.
C7_LazyZero ==
    (last.op = "read_u8" /\ FirstPage(last.addr) \notin touched)
        => /\ ~page_at(memory, FirstPage(last.addr)).data.some
           /\ page_at(memory, FirstPage(last.addr)).flags = NONE
           /\ last.flags = NONE => (last.ok /\ last.value = <<0>>)
           /\ last.flags # NONE => (~last.ok /\ proc.status = "panicked")

\* C7 witness: after two init calls, of which one copied bytes, read_u8 with
\* no flag requested returned from a page neither call touched.
C7_Witness ==
    /\ last.op = "read_u8" /\ last.ok /\ last.flags = NONE
    /\ FirstPage(last.addr) \notin touched
    /\ nops = 2
    /\ \E i \in touched : page_at(memory, i).data.some

\* C8: after an init_copy that succeeded, an unaligned read of the same range
\* with the same flags returns the source bytes from source_offset on, in order.
C8_CopyRoundTrip ==
    (last.op = "init_copy" /\ last.ok)
        => LET r == read_unaligned(memory, last.addr, last.flags, last.len)
           IN  /\ r.ok
               /\ r.bytes = [i \in 1..last.len |-> Source.at[last.off + i - 1]]

\* C8 witness: a successful copy from a base that is not page-aligned over
\* three pages, onto pages an earlier call had already written.
C8_Witness ==
    /\ last.op = "init_copy" /\ last.ok
    /\ Lo(last.addr) % PAGE_SIZE # 0
    /\ Cardinality(pages_of(last.addr, last.len)) = 3
    /\ nops = 2

\* the byte stored at an address (zero when its page has no backing storage)
ByteAt(mem, addr) ==
    bytes(page_at(mem, FirstPage(addr)), Lo(addr) % PAGE_SIZE)

InitZeroStep == last'.op = "init_zero" /\ nops' = nops + 1

\* what init_zero does to the pages: flags OR'd on the pages of the range,
\* no backing storage allocated or changed, every other page as it was
C9_Frame ==
    /\ \A i \in pages_of(last'.addr, last'.len) : i < NUM_PAGES =>
          /\ FlagSet(page_at(memory', i).flags)
                = FlagSet(page_at(memory, i).flags) \cup FlagSet(last'.flags)
          /\ page_at(memory', i).data = page_at(memory, i).data
    /\ \A i \in (DOMAIN memory \cup DOMAIN memory') \ pages_of(last'.addr, last'.len) :
          page_at(memory', i) = page_at(memory, i)

\* C9 as stated: init_zero ORs the flags onto every page of the range,
\* allocates and changes no backing storage, leaves the other pages alone,
\* and a read of the range after it returns zeros.
C9_Original ==
    [][InitZeroStep =>
        /\ C9_Frame
        /\ last'.ok =>
              \E r \in {read_unaligned(memory', last'.addr, last'.flags, last'.len)} :
                  r.ok /\ r.bytes = [k \in 1..last'.len |-> 0]]_vars

\* C9, amended: init_zero ORs the flags onto every page of the range,
\* allocates and changes no backing storage and leaves the other pages alone;
\* a read of the range after a successful call returns what the range held
\* before it: zero on every page without backing storage, and the bytes an
\* earlier init_copy stored on the others.
C9_InitZero ==
    [][InitZeroStep =>
        /\ C9_Frame
        /\ last'.ok =>
              \E r \in {read_unaligned(memory', last'.addr, last'.flags, last'.len)} :
                  /\ r.ok
                  /\ \A k \in 1..last'.len :
                        LET a == wrapping_add(last'.addr, FromNat(k - 1))
                        IN  /\ r.bytes[k] = ByteAt(memory, a)
                            /\ ~page_at(memory, FirstPage(a)).data.some => r.bytes[k] = 0]_vars

\* C9 witness: a successful init_zero over three pages that already held
\* copied bytes and fewer flags than it asked for.
C9_Witness ==
    /\ last.op = "init_zero" /\ last.ok
    /\ last.flags = READ + EXECUTE
    /\ Cardinality(pages_of(last.addr, last.len)) = 3
    /\ \A i \in pages_of(last.addr, last.len) :
          /\ page_at(memory, i).data.some
          /\ page_at(memory, i).data.at # <<>>
          /\ page_at(memory, i).flags = READ + EXECUTE
    /\ \E k \in 1..last.len : ByteAt(memory, wrapping_add(last.addr, FromNat(k - 1))) # 0

(***************************************************************************)
(* Claims about Cpu, checked under SpecCpu                                 *)
(***************************************************************************)
FOUR == U32(0, 4)
StepDone == last.op = "step1" /\ last.fetched
Returned == last.op = "step1" /\ proc.status = "running"
CondCode(word) == Hi(word) \div 4096
BodyBits(word) == U32(Hi(word) % 4096, Lo(word))
FlagsOf(core) == <<core.z, core.c, core.n, core.v>>

\* the ARM condition table: row cc against the flags f
ConditionTable(cc, f) ==
    <<f.z, ~f.z, f.c, ~f.c, f.n, ~f.n, f.v, ~f.v,
      f.c /\ ~f.z, ~f.c \/ f.z, f.n = f.v, f.n # f.v,
      ~f.z /\ (f.n = f.v), f.z \/ (f.n # f.v), TRUE, FALSE>>[cc + 1]

\* the body of the word shows that it ran: it left the process, it was a
\* fatal error, or it changed register 0
BodyRan == proc.status # "running" \/ cpu.registers[0] # last.pre.registers[0]

\* C1: for every condition code (bits 31:28) and every combination of the
\* flags Z, C, N, V, step1 executes the body of the word exactly when the ARM
\* condition table says so (1111 never), and the step leaves the flags alone.
C1_ConditionTable ==
    StepDone =>
        /\ last.cond <=> ConditionTable(CondCode(last.word), last.pre)
        /\ (/\ BodyBits(last.word) \in CondBodies
            /\ last.pre.registers[0] = ZERO32
            /\ last.pre.registers[7] = U32(0, 1))
             => (BodyRan <=> ConditionTable(CondCode(last.word), last.pre))
        /\ FlagsOf(cpu) = FlagsOf(last.pre)

\* C1 witness: GT with Z clear and N = V = true ran MOV r0,#42.
C1_Witness ==
    /\ StepDone /\ CondCode(last.word) = 12 /\ BodyBits(last.word) = U32(928, 42)
    /\ ~last.pre.z /\ last.pre.n /\ last.pre.v
    /\ last.pre.registers[0] = ZERO32 /\ cpu.registers[0] = U32(0, 42)

\* the step executed a data-processing word with Rd = 15
WrotePc == last.cond /\ writes_pc(last.word)

\* C2 as stated: a step that returns leaves registers[15] at its value before
\* the step plus 4, whatever it executed, and the n-th step of a run started
\* by set_next_instruction_addr(E) fetches from E + 4n.
C2_Original ==
    /\ Returned => cpu.registers[15] = wrapping_add(last.pre.registers[15], FOUR)
    /\ (proc.status = "running" /\ last.op \in {"set_next_instruction_addr", "step1"})
         => wrapping_sub(cpu.registers[15], U32(0, 8))
              = wrapping_add(last.entry, FromNat(4 * nops))

\* C2, amended: set_next_instruction_addr(E) stores E + 8 in register 15; a
\* step that returns adds 4 (mod 2^32) to what its body left in register 15:
\* that is the value before the step plus 4 when the condition did not hold
\* or the executed instruction has Rd # 15, and the value the instruction
\* wrote plus 4 when a data-processing instruction with Rd = 15 ran.  Until
\* such an instruction runs, the n-th step fetches from E + 4n.
C2_PcAdvance ==
    /\ last.op = "set_next_instruction_addr"
         => cpu.registers[15] = wrapping_add(last.entry, U32(0, 8))
    /\ (Returned /\ ~WrotePc)
         => cpu.registers[15] = wrapping_add(last.pre.registers[15], FOUR)
    /\ (Returned /\ WrotePc)
         => cpu.registers[15]
              = wrapping_add(impl_data_processing(last.pre, last.word).core.registers[15], FOUR)
    /\ (proc.status = "running" /\ last.op \in {"set_next_instruction_addr", "step1"}
        /\ ~last.jumped)
         => wrapping_sub(cpu.registers[15], U32(0, 8))
              = wrapping_add(last.entry, FromNat(4 * nops))

\* C2 witness: the second step of a run entered at 0xFFFFFFF8 returned, and
\* register 15 wrapped round to 0x00000008; no step wrote register 15.
C2_Witness ==
    /\ Returned /\ nops = 2 /\ ~last.jumped
    /\ last.entry = ENTRY_TOP
    /\ last.pre.registers[15] = U32(0, 4)
    /\ cpu.registers[15] = U32(0, 8)

SwiStep == StepDone /\ last.cond /\ Field(last.word, 24, 15) = 15

\* x is the 32 bits of the exit code
SameBits(code, x) ==
    IF code.neg THEN code.mag # ZERO32 /\ wrapping_add(code.mag, x) = ZERO32
    ELSE code.mag = x /\ Hi(x) < 32768

\* every page of the table that [addr, addr + size) touches carries READ
\* (the memories here map fewer pages than a size of 2^16 or more touches)
Readable(mem, addr, size) ==
    /\ Hi(size) = 0
    /\ \A i \in pages_of(addr, Lo(size)) :
          i < NUM_PAGES => READ \in FlagSet(page_at(mem, i).flags)

\* the chunks a step appended to a stream
Appended(now, was) == SubSeq(now, Len(was) + 1, Len(now))

\* C4: an SWI whose condition holds, with register 7 = 4 and register 0 in
\* {1, 2}, emits to the selected stream exactly the register-2 bytes at
\* [r1, r1 + r2) in address order, in chunks of at most 512 bytes read with
\* READ, for every r1 and r2; the step then returns and the run goes on.
C4_Write ==
    (/\ SwiStep
     /\ last.pre.registers[7] = U32(0, 4)
     /\ last.pre.registers[0] \in {U32(0, 1), U32(0, 2)}
     /\ Readable(memory, last.pre.registers[1], last.pre.registers[2])
     /\ last.accepted)
      => LET r1   == last.pre.registers[1]
             r2   == Lo(last.pre.registers[2])
             sel  == IF last.pre.registers[0] = U32(0, 1) THEN "stdout" ELSE "stderr"
             oth  == IF last.pre.registers[0] = U32(0, 1) THEN "stderr" ELSE "stdout"
             new  == Appended(out[sel], last.out_before[sel])
         IN  /\ proc.status = "running"
             /\ Flatten(new) = [k \in 1..r2 |-> ByteAt(memory, wrapping_add(r1, FromNat(k - 1)))]
             /\ \A j \in 1..Len(new) : Len(new[j]) <= 512
             /\ out[oth] = last.out_before[oth]
             /\ cpu.registers[15] = wrapping_add(last.pre.registers[15], FOUR)

\* C5: a write syscall (register 7 = 4) with register 0 not in {1, 2} reads
\* no memory and writes nothing, sets register 0 to 9, leaves registers
\* 1..14 and the flags alone, advances register 15 by 4 and returns, for
\* every register 1 and 2 (addresses of unmapped pages included).
C5_BadFd ==
    (/\ SwiStep
     /\ last.pre.registers[7] = U32(0, 4)
     /\ last.pre.registers[0] \notin {U32(0, 1), U32(0, 2)})
      => /\ proc.status = "running" /\ proc.panic = ""
         /\ out = last.out_before
         /\ cpu.registers = [last.pre.registers EXCEPT ![0] = U32(0, 9),
                                                       ![15] = wrapping_add(@, FOUR)]
         /\ FlagsOf(cpu) = FlagsOf(last.pre)

\* C5 witness: fileno 3 with 2^32 - 1 bytes asked from address 0, a page
\* that is not mapped; the step returned with 9 in register 0.
C5_Witness ==
    /\ SwiStep /\ proc.status = "running"
    /\ last.pre.registers[7] = U32(0, 4)
    /\ last.pre.registers[0] = U32(0, 3)
    /\ last.pre.registers[1] = ZERO32
    /\ last.pre.registers[2] = ALL_ONES
    /\ page_at(memory, 0).flags = NONE
    /\ cpu.registers[0] = U32(0, 9)

\* C12: step1 on ADD r0,r1,r2 (register operand, condition AL, no flag
\* update) with r1 = 0xFFFFFFFF and r2 = 1 leaves r0 = 0 and raises no fault.
C12_AddWraps ==
    (/\ StepDone /\ last.word = ADD_R0_R1_R2
     /\ last.pre.registers[1] = ALL_ONES /\ last.pre.registers[2] = U32(0, 1))
      => (proc.status = "running" /\ proc.panic = "" /\ cpu.registers[0] = ZERO32)

\* C13: no step indexes a page beyond the page table: no fetch and no read of
\* the write syscall is a fatal index out of bounds, for every address and
\* length.
C13_PageIndexInTable ==
    last.op = "step1" => proc.panic # "index out of bounds"

(***************************************************************************)
(* Claims about the ALU, checked under SpecAlu.  The values the tables of  *)
(* the data-processing instructions give are computed on the set of the    *)
(* bits that are set in a word, and on integers reduced modulo 2^32.       *)
(***************************************************************************)
BitSet(x) ==
    {i \in 0..15 : (Lo(x) \div Pow2(i)) % 2 = 1}
    \cup {i \in 16..31 : (Hi(x) \div Pow2(i - 16)) % 2 = 1}

\* the number whose bit i - base is set for every i of S
RECURSIVE Weigh(_, _)
Weigh(S, base) ==
    IF S = {} THEN 0
    ELSE LET i == CHOOSE j \in S : TRUE IN Pow2(i - base) + Weigh(S \ {i}, base)

FromBitSet(S) == U32(Weigh({i \in S : i >= 16}, 16), Weigh({i \in S : i < 16}, 0))

\* bits low + n - 1 : low of a word, as a number
BitsOf(word, low, n) == Weigh({i \in BitSet(word) : i >= low /\ i < low + n}, low)

\* the integer hi * 2^16 + lo modulo 2^32, for hi and lo of either sign
Mod32(hi, lo) == U32((hi + (lo \div M16)) % M16, lo % M16)

\* the table of the data-processing opcodes that write Rd
AluTable(opcode, op1, op2, carry) ==
    CASE opcode = 0  -> FromBitSet(BitSet(op1) \cap BitSet(op2))
      [] opcode = 1  -> FromBitSet((BitSet(op1) \ BitSet(op2)) \cup (BitSet(op2) \ BitSet(op1)))
      [] opcode = 2  -> Mod32(Hi(op1) - Hi(op2), Lo(op1) - Lo(op2))
      [] opcode = 3  -> Mod32(Hi(op2) - Hi(op1), Lo(op2) - Lo(op1))
      [] opcode = 4  -> Mod32(Hi(op1) + Hi(op2), Lo(op1) + Lo(op2))
      [] opcode = 5  -> Mod32(Hi(op1) + Hi(op2), Lo(op1) + Lo(op2) + carry)
      [] opcode = 6  -> Mod32(Hi(op1) - Hi(op2), Lo(op1) - Lo(op2) + carry - 1)
      [] opcode = 7  -> Mod32(Hi(op2) - Hi(op1), Lo(op2) - Lo(op1) + carry - 1)
      [] opcode = 12 -> FromBitSet(BitSet(op1) \cup BitSet(op2))
      [] opcode = 13 -> op2
      [] opcode = 14 -> FromBitSet(BitSet(op1) \ BitSet(op2))
      [] opcode = 15 -> FromBitSet((0..31) \ BitSet(op2))

\* the second operand of a data-processing word, from the registers regs
SecondOperand(regs, word) ==
    IF 25 \in BitSet(word)
    THEN LET k == 2 * BitsOf(word, 8, 4)
         IN  FromBitSet({(i + 32 - k) % 32 : i \in {j \in BitSet(word) : j < 8}})
    ELSE LET rm   == BitSet(regs[BitsOf(word, 0, 4)])
             type == BitsOf(word, 5, 2)
             k    == IF 4 \in BitSet(word)
                     THEN Weigh({i \in BitSet(regs[BitsOf(word, 8, 4)]) : i < 5}, 0)
                     ELSE BitsOf(word, 7, 5)
         IN  CASE type = 0 -> FromBitSet({i + k : i \in rm} \cap (0..31))
               [] type = 1 -> FromBitSet({i - k : i \in {j \in rm : j >= k}})
               [] type = 2 -> FromBitSet({i - k : i \in {j \in rm : j >= k}}
                                         \cup (IF 31 \in rm THEN (32 - k)..31 ELSE {}))
               [] type = 3 -> FromBitSet({(i + 32 - k) % 32 : i \in rm})

AluDone == last.op = "impl_data_processing"
Opcode(word) == BitsOf(word, 21, 4)
SetCc(word) == 20 \in BitSet(word)
Rn(word) == BitsOf(word, 16, 4)
Rd(word) == BitsOf(word, 12, 4)
Writes(word) == ~SetCc(word) /\ Opcode(word) \notin 8..11

\* C14: impl_data_processing with the set-condition-codes bit clear writes to
\* Rd the table's result modulo 2^32 for its opcode, from the value of Rn, the
\* second operand and the carry flag, without a fault and changing no other
\* register and no flag; TST, TEQ, CMP, CMN and every word with the bit set
\* fail as not implemented and write nothing.
C14_AluTable ==
    AluDone =>
        IF Writes(last.word)
        THEN /\ proc.status = "returned"
             /\ cpu.registers =
                   [last.pre.registers EXCEPT ![Rd(last.word)] =
                        AluTable(Opcode(last.word), last.pre.registers[Rn(last.word)],
                                 SecondOperand(last.pre.registers, last.word),
                                 IF last.pre.c THEN 1 ELSE 0)]
             /\ FlagsOf(cpu) = FlagsOf(last.pre)
        ELSE /\ proc.status = "panicked"
             /\ proc.panic = (IF SetCc(last.word) THEN "setcc not yet implemented"
                              ELSE <<"tst", "teq", "cmp", "cmn">>[Opcode(last.word) - 7]
                                        \o " not yet implemented")
             /\ cpu = last.pre

\* C14 witness: SBC r0,r1,r4 ROR #16 with the carry clear:
\* 0xFFFFFFFF - 0x56781234 + 0 - 1 = 0xA987EDCA.
C14_Witness ==
    /\ AluDone /\ proc.status = "returned" /\ ~last.pre.c
    /\ last.word = DataWord(0, 6, 0, 1, 0, 16 * 128 + 3 * 32 + 4)
    /\ cpu.registers[0] = U32(43399, 60874)

\* C15: the second operand, as MOV writes it to Rd: with bit 25 set, bits 7:0
\* rotated right by twice bits 11:8; otherwise register Rm shifted left,
\* right, right with the sign, or rotated right, by bits 11:7 when bit 4 is
\* clear and by the low 5 bits of register Rs (bits 11:8) when it is set.
C15_SecondOperand ==
    (AluDone /\ Opcode(last.word) = 13 /\ ~SetCc(last.word))
        => /\ proc.status = "returned"
           /\ cpu.registers[Rd(last.word)] = SecondOperand(last.pre.registers, last.word)
           /\ (last.word = DataWord(1, 13, 0, 1, 0, 2 * 256 + 204))
                 => cpu.registers[0] = U32(49152, 12)

\* C15 witness: MOV r0,r3,ASR r5 with r3 = 0x80000001 and r5 = 33 shifted by
\* one place and kept the sign: 0xC0000000.
C15_Witness ==
    /\ AluDone /\ proc.status = "returned"
    /\ last.word = DataWord(0, 13, 0, 1, 0, 5 * 256 + 2 * 32 + 16 + 3)
    /\ cpu.registers[0] = U32(49152, 0)

(***************************************************************************)
(* Claims about the dispatch of step1, checked under SpecCpu               *)
(***************************************************************************)
Holds(word, core) == ConditionTable(CondCode(word), core)
IsBx(word) == BitsOf(word, 16, 12) = 303 /\ BitsOf(word, 4, 12) = 4081     \* 0x12F, 0xFF1
Class(word) == BitsOf(word, 20, 8)

\* C16: when the condition of the fetched word does not hold (1111 included),
\* the step returns without a fatal error, adds 4 to register 15 and changes
\* nothing else: registers 0..14, the flags and the output are as before,
\* also when the word is BX, an unimplemented class, or an SWI with an
\* unknown syscall number.
C16_Skipped ==
    (StepDone /\ ~Holds(last.word, last.pre))
        => /\ proc.status = "running" /\ proc.panic = ""
           /\ cpu = [last.pre EXCEPT !.registers[15] = wrapping_add(@, FOUR)]
           /\ out = last.out_before

\* C16 witness: BX r14 under condition 1111, and the step returned.
C16_Witness ==
    /\ StepDone /\ CondCode(last.word) = 15 /\ IsBx(last.word)
    /\ proc.status = "running"
    /\ cpu.registers[15] = wrapping_add(last.pre.registers[15], FOUR)

\* what the data-processing path leaves in the registers, followed by the
\* advance of register 15
AfterDataProcessing(regs, word, carry) ==
    [[regs EXCEPT ![Rd(word)] = AluTable(Opcode(word), regs[Rn(word)],
                                         SecondOperand(regs, word), carry)]
        EXCEPT ![15] = wrapping_add(@, FOUR)]

\* C17: when the condition holds, a word with bits 27:4 = 0x12FFF1 is the
\* fatal error BX not yet implemented; otherwise bits 27:20 = 0x28 or 0x3A
\* run the data-processing path, 0xF0..0xFF the software-interrupt path
\* (exit for r7 = 1, the unknown-syscall error for r7 outside {1, 4}), and
\* every other value is the fatal unimplemented-instruction error; the fatal
\* errors change no register.
C17_Dispatch ==
    (StepDone /\ Holds(last.word, last.pre)) =>
        IF IsBx(last.word)
        THEN proc.status = "panicked" /\ proc.panic = "BX not yet implemented" /\ cpu = last.pre
        ELSE IF Class(last.word) \in {40, 58}
        THEN /\ proc.status = "running"
             /\ cpu.registers = AfterDataProcessing(last.pre.registers, last.word,
                                                    IF last.pre.c THEN 1 ELSE 0)
        ELSE IF Class(last.word) \in 240..255
        THEN /\ last.pre.registers[7] = U32(0, 1) => proc.status = "exited"
             /\ last.pre.registers[7] \notin {U32(0, 1), U32(0, 4)}
                  => (proc.status = "panicked" /\ proc.panic = "unimplemented SC_???"
                      /\ cpu = last.pre)
             /\ proc.panic \notin {"unimplemented op", "BX not yet implemented"}
        ELSE proc.status = "panicked" /\ proc.panic = "unimplemented op" /\ cpu = last.pre

\* C17 witness: bits 27:20 = 0xF0 with r7 = 5 took the software-interrupt
\* path.
C17_Witness ==
    /\ StepDone /\ CondCode(last.word) = 14 /\ Class(last.word) = 240
    /\ last.pre.registers[7] = U32(0, 5)
    /\ proc.panic = "unimplemented SC_???"

(***************************************************************************)
(* Claims about run, checked under Spec and FairSpec                       *)
(***************************************************************************)
\* the run ends only by the exit syscall or a fatal error
ExitOnlyBySwi ==
    /\ proc.status = "exited"
         => (SwiStep /\ last.pre.registers[7] = U32(0, 1)
             /\ SameBits(proc.exit_code, last.pre.registers[0]))
    /\ (SwiStep /\ last.pre.registers[7] = U32(0, 1)) => proc.status = "exited"
    /\ last.op = "step1"
         => \/ proc.status = "running"
            \/ proc.status = "exited"
            \/ proc.status = "panicked" /\ proc.panic # ""

Exited42 == proc.status = "exited" /\ proc.exit_code = [neg |-> FALSE, mag |-> U32(0, 42)]

\* C3: a run ends normally only through the exit syscall: an SWI whose
\* condition holds with register 7 = 1 ends the process with the exit code
\* in register 0; no other step stops the run except a fatal error; and the
\* loaded program MOV r7,#1; MOV r0,#42; SWI eventually ends with code 42.
C3_Exit == []ExitOnlyBySwi /\ ((elf = ExitElf) ~> Exited42)

\* C3 witness: the third step of MOV r7,#1; MOV r0,#42; SWI left the process
\* with code 42.
C3_Witness ==
    /\ elf = ExitElf /\ Exited42 /\ nops = 3
    /\ SwiStep /\ last.pre.registers[7] = U32(0, 1) /\ last.pre.registers[0] = U32(0, 42)

\* the MemoryFlags of a segment's permission bits
FlagsOfSegment(pf) ==
    (IF (pf \div 4) % 2 = 1 THEN READ ELSE 0) + (IF (pf \div 2) % 2 = 1 THEN WRITE ELSE 0)
    + (IF pf % 2 = 1 THEN EXECUTE ELSE 0)

\* C10: after the loader has processed a PT_LOAD segment (v, fs, ms) inside
\* the address space, every page touched by [v, v + ms) carries the flags of
\* the segment's permission bits, reading [v, v + fs) with those flags returns
\* the fs file bytes at the segment's file offset, and reading [v + fs, v + ms)
\* returns zeros.
C10_PtLoad ==
    (/\ last.op = "run" /\ last.ok /\ Len(last.segs) = 1
     /\ InAddressSpace(last.segs[1].p_vaddr, ToNat(last.segs[1].p_memsz)))
      => LET ph == last.segs[1]
             fs == ToNat(ph.p_filesz)
             ms == ToNat(ph.p_memsz)
             fl == FlagsOfSegment(Lo(ph.p_flags))
             head == read_unaligned(memory, ph.p_vaddr, fl, fs)
             tail == read_unaligned(memory, wrapping_add(ph.p_vaddr, ph.p_filesz), fl, ms - fs)
         IN  /\ AllCarry(memory, pages_of(ph.p_vaddr, ms), fl)
             /\ head.ok /\ head.bytes = [k \in 1..fs |-> elf.at[ToNat(ph.p_offset) + k - 1]]
             /\ tail.ok /\ tail.bytes = [k \in 1..(ms - fs) |-> 0]

\* the validation rules a file of at least EHDR_SIZE bytes violates
HeaderViolations(f) ==
    {r \in 1..11 :
        <<<<f.at[0], f.at[1], f.at[2], f.at[3]>> # <<127, 69, 76, 70>>,    \* magic
          f.at[4] # 1,                                                   \* class 32-bit
          f.at[5] # 1,                                                   \* little-endian
          f.at[6] # 1,                                                   \* ident version
          f.at[16] + 256 * f.at[17] # 2,                                 \* e_type executable
          f.at[18] + 256 * f.at[19] # 40,                                \* e_machine ARM
          <<f.at[20], f.at[21], f.at[22], f.at[23]>> # <<1, 0, 0, 0>>,   \* e_version
          <<f.at[28], f.at[29], f.at[30], f.at[31]>> = <<0, 0, 0, 0>>,   \* e_phoff
          f.at[40] + 256 * f.at[41] < 52,                                \* e_ehsize
          f.at[42] + 256 * f.at[43] = 0,                                 \* e_phentsize
          f.at[44] + 256 * f.at[45] = 0>>[r]}                            \* e_phnum

\* the format errors of header validation
HeaderErrors ==
    {"InvalidData: not an elf file (invalid magic)", "InvalidData: only 32-bit elfs",
     "InvalidData: only little-endian elfs", "InvalidData: only EI_VERSION == 1",
     "InvalidData: e_type != ET_EXEC", "InvalidData: e_machine != EM_ARM",
     "InvalidData: only e_version == 1", "InvalidData: e_phoff == 0",
     "InvalidData: e_ehsize < size_of::<Ehdr>()", "InvalidData: e_phentsize == 0",
     "InvalidData: e_phnum == 0"}

\* the load failed before Memory::new, and nothing ran
RejectedUntouched ==
    /\ ~last.ok /\ ~last.mem_new /\ proc.status = "error"
    /\ memory = Memory_new /\ cpu = Cpu_new /\ nops = 0
    /\ out = [stdout |-> <<>>, stderr |-> <<>>]

\* C11: on a file that holds a whole header, the loader returns a format
\* error, without constructing a Memory and without running a step, exactly
\* when the header violates one of the eleven validation rules; a header that
\* passes them all gets as far as Memory::new.  A file that ends before its
\* header does is rejected too, with no Memory constructed, and a run that
\* returned an error never steps.
C11_HeaderValidation ==
    /\ (last.op = "run" /\ elf.len >= EHDR_SIZE) =>
          IF HeaderViolations(elf) # {}
          THEN RejectedUntouched /\ last.err \in HeaderErrors
          ELSE last.mem_new /\ last.err \notin HeaderErrors
    /\ (last.op = "run" /\ elf.len < EHDR_SIZE) =>
          RejectedUntouched /\ last.err \in HeaderErrors \cup {"Io"}
    /\ proc.status = "error" => (last.op = "run" /\ nops = 0)

\* C11 witness: a header whose only violation is e_ehsize = 51 was rejected.
C11_Witness ==
    /\ last.op = "run" /\ elf.len >= EHDR_SIZE
    /\ HeaderViolations(elf) = {9}
    /\ last.err = "InvalidData: e_ehsize < size_of::<Ehdr>()"
    /\ RejectedUntouched

\* C18: in a run (a Cpu from Cpu::new, set_next_instruction_addr, then step1
\* after step1) the flags Z, C, N, V are false in every state, and no step
\* changes the Memory the loader built: page flags, allocation and bytes.
C18_Static ==
    /\ [](FlagsOf(cpu) = <<FALSE, FALSE, FALSE, FALSE>>)
    /\ [][last'.op = "step1" => memory' = memory]_vars

\* C18 witness: the ninth step of a program that wrote 0 to two registers,
\* skipped MOVEQ, ran MOVNE and made a write syscall; the flags are false.
C18_Witness ==
    /\ elf = FlagElf /\ proc.status = "exited" /\ nops = 9
    /\ cpu.registers[2] = ZERO32 /\ cpu.registers[3] = U32(0, 1)
    /\ FlagsOf(cpu) = <<FALSE, FALSE, FALSE, FALSE>>
    /\ memory # Memory_new

\* the fields of entry i (from 0) of the program header table of file f
TableEntry(f, i) ==
    LET at(o) == f.at[f.at[28] + 256 * f.at[29] + i * (f.at[42] + 256 * f.at[43]) + o]
        word(o) == U32(at(o + 2) + 256 * at(o + 3), at(o) + 256 * at(o + 1))
    IN  [p_type |-> word(0), p_filesz |-> word(16), p_memsz |-> word(20)]
Exceeds(x, y) == Hi(x) > Hi(y) \/ (Hi(x) = Hi(y) /\ Lo(x) > Lo(y))

\* the Memory the loader had after the walk's entry k
MemoryAfter(k) == IF k < Len(last.walk) THEN last.walk[k + 1].mem ELSE memory

\* C19: the loader reads the program headers in table order; a PT_NULL
\* entry and an entry of a type other than 0, 1, 2 leave Memory as it was;
\* a PT_LOAD entry whose file size exceeds its memory size ends the load
\* with a format error and Memory as it was before that entry; a PT_DYNAMIC
\* entry ends the load with a format error; a load that ended with an error
\* runs no step.
C19_ProgramHeaders ==
    (last.op = "run" /\ last.mem_new) =>
        /\ \A k \in 1..Len(last.walk) :
              LET e == TableEntry(elf, k - 1)
              IN  /\ last.walk[k].iph = k - 1
                  /\ last.walk[k].phdr.p_type = e.p_type
                  /\ e.p_type \notin {U32(0, 0), U32(0, 1), U32(0, 2)} \/ e.p_type = U32(0, 0)
                       => (MemoryAfter(k) = last.walk[k].mem
                           /\ (k = Len(last.walk) => last.ok))
                  /\ (e.p_type = U32(0, 1) /\ Exceeds(e.p_filesz, e.p_memsz))
                       => (/\ k = Len(last.walk) /\ ~last.ok
                           /\ last.err = "InvalidData: p_filesz exceeds p_memsz"
                           /\ memory = last.walk[k].mem)
                  /\ e.p_type = U32(0, 2)
                       => (/\ k = Len(last.walk) /\ ~last.ok
                           /\ last.err = "InvalidData: PT_DYNAMIC not yet supported"
                           /\ memory = last.walk[k].mem)
        /\ last.ok => Len(last.walk) = elf.at[44] + 256 * elf.at[45]
        /\ ~last.ok => (proc.status = "error" /\ cpu = Cpu_new /\ nops = 0)

\* C19 witness: load, null, big: the PT_NULL entry left the one mapped segment
\* as it was, and the third entry ended the load with that Memory.
C19_Witness ==
    /\ last.op = "run" /\ elf = TableElf(<<"load", "null", "big">>)
    /\ ~last.ok /\ last.err = "InvalidData: p_filesz exceeds p_memsz"
    /\ Len(last.walk) = 3
    /\ last.walk[2].mem # Memory_new
    /\ last.walk[3].mem = last.walk[2].mem
    /\ memory = last.walk[2].mem

\* the contexts that are inside a read
Reading == {c \in Contexts : readers[c].pc \in {"lock", "locked", "copied"}}

\* C20: with several contexts reading Memory at once, each context holds at
\* most one page lock at any time, and none while it waits for the next
\* page's; a page is read only under its lock, which at most one context
\* holds; and while some context is inside a read, some context inside a
\* read can take its next step.
C20_PageLocks ==
    /\ \A c \in Contexts :
          /\ Cardinality(readers[c].held) <= 1
          /\ readers[c].pc \in {"locked", "copied"} => readers[c].held = {readers[c].page_idx}
          /\ readers[c].pc \in {"idle", "lock", "done", "panicked"} => readers[c].held = {}
    /\ \A c, d \in Contexts : c # d => readers[c].held \cap readers[d].held = {}
    /\ Reading # {} => ENABLED ReadProgress

\* C20 witness: a context that has read its two bytes of page 32 and dropped
\* that lock waits for page 33, which another context holds.
C20_Witness ==
    \E c, d \in Contexts :
        /\ c # d
        /\ readers[c].pc = "lock" /\ readers[c].page_idx = 33
        /\ Len(readers[c].bytes) = 2 /\ readers[c].held = {}
        /\ readers[d].held = {33}
        /\ locks[33].owner = d

\* the pages that carry a flag or have backing storage before or after a step
Populated == DOMAIN memory \cup DOMAIN memory'

\* page p keeps every flag it carried and its backing storage across a step
PageGrows(p) ==
    /\ FlagSet(page_at(memory, p).flags) \subseteq FlagSet(page_at(memory', p).flags)
    /\ page_at(memory, p).data.some => page_at(memory', p).data.some

\* C21: across init_zero, init_copy and the reads, calls that fail part-way
\* included, no page loses a flag it carried and no page with backing
\* storage returns to the unallocated state; after an init call, failed or
\* not, every page on which it first ran init_page carries the flags of the
\* call; and after a failed init call the first page of its range (every
\* page of the range inside the table, when the call ran out of the address
\* space) carries the flags it had together with the flags of the call.
C21_PageStateGrows ==
    [][/\ \A p \in Populated : PageGrows(p)
       /\ last'.op \in {"init_zero", "init_copy"}
            => \A p \in touched' \ touched :
                  FlagSet(last'.flags) \subseteq FlagSet(page_at(memory', p).flags)
       /\ (last'.op \in {"init_zero", "init_copy"} /\ ~last'.ok)
            => \A p \in {q \in pages_of(last'.addr, last'.len) : q < NUM_PAGES} :
                  (p = FirstPage(last'.addr) \/ last'.err = "OutOfMemory")
                    => FlagSet(page_at(memory', p).flags)
                         = FlagSet(page_at(memory, p).flags) \cup FlagSet(last'.flags)]_vars

\* C21 witness: an init_copy of three pages onto readable pages failed with
\* an I/O error inside the second page; the first page of the range has the
\* flags of the call added to the ones it had, and keeps its storage.
C21_Witness ==
    /\ last.op = "init_copy" /\ ~last.ok /\ last.err = "Io"
    /\ last.addr = U32(0, 33790) /\ last.len = 1027 /\ last.flags = READ + EXECUTE
    /\ page_at(memory, 32).flags = READ + EXECUTE /\ page_at(memory, 32).data.some
    /\ page_at(memory, 33).flags = READ + EXECUTE /\ page_at(memory, 33).data.some
    /\ 34 \notin DOMAIN memory
    /\ nops = 2

====
